---- MODULE Spec2Model ----
(***************************************************************************)
(* Room / board synchronisation server of BoardJS (src/server.js).        *)
(*                                                                         *)
(* The server is a single-threaded socket.io process.  Every socket event  *)
(* handler runs to completion and uses synchronous file I/O (readFileSync, *)
(* writeFileSync), so one handler invocation is one atomic action.         *)
(*                                                                         *)
(* State: the live connections (socket objects with userInfo, handshake    *)
(* address and currentRoom), the socket.io room membership of each         *)
(* connection, the board files under data/boards, the wall clock, and the  *)
(* effects (file writes, emits, callback replies, forced disconnects) of   *)
(* the handler that ran last, in the order the handler produced them.      *)
(*                                                                         *)
(* Each connection belongs to one browser page running the client          *)
(* (src/unnamed/part_000, class WhiteboardApp); clients holds the fields   *)
(* of the page: its local stroke map this.strokes, the state of the        *)
(* pointer gesture, the selection and the undo and redo stacks.  The       *)
(* server never reads or writes it.  net holds the packets that pages and  *)
(* server have sent and that have not been taken yet.                      *)
(***************************************************************************)
EXTENDS Integers, Sequences, FiniteSets, TLC

VARIABLES sockets, joined, boards, uuidCount, now, pendingUnlink, out, clients, net

vars == <<sockets, joined, boards, uuidCount, now, pendingUnlink, out, clients, net>>

(***************************************************************************)
(* Bounds of the model                                                     *)
(***************************************************************************)
\* calls of uuidv4() over the life of the process
MaxUuids == 1
\* largest absolute value of a coordinate a client's stroke is followed to
MaxCoord == 30
\* milliseconds the clock may advance between two readings of one handler,
\* and beyond one expiry period
MaxSkew == 1
\* points of one stroke
MaxPoints == 3
\* entries the undo and redo stacks of one page hold together
MaxHistory == 2
\* readings of Date.now() a page takes for the ids of its strokes
MaxTemps == 2
\* packets on their way from one page to the server, or from the server to
\* one page
MaxInFlight == 2

(***************************************************************************)
(* Value domains                                                           *)
(***************************************************************************)
Null == "null"
\* connections accepted over the life of the process, in the order they arrive
SocketIds == {1, 2}
\* the digits of Number.prototype.toString(36), and what toUpperCase makes of
\* them
LowerDigits == << "0", "1", "2", "3", "4", "5", "6", "7", "8", "9", "a", "b",
                 "c", "d", "e", "f", "g", "h", "i", "j", "k", "l", "m", "n",
                 "o", "p", "q", "r", "s", "t", "u", "v", "w", "x", "y", "z" >>
UpperDigits == << "0", "1", "2", "3", "4", "5", "6", "7", "8", "9", "A", "B",
                 "C", "D", "E", "F", "G", "H", "I", "J", "K", "L", "M", "N",
                 "O", "P", "Q", "R", "S", "T", "U", "V", "W", "X", "Y", "Z" >>
UpperChar(c) == UpperDigits[CHOOSE i \in DOMAIN LowerDigits : LowerDigits[i] = c]

\* String.prototype.toUpperCase on a string of such digits
RECURSIVE toUpperCase(_)
toUpperCase(str) ==
    IF Len(str) = 0 THEN ""
    ELSE UpperChar(SubSeq(str, 1, 1)) \o toUpperCase(SubSeq(str, 2, Len(str)))

\* String.prototype.substring(from, to) with 0 <= from <= to (0-based, end
\* exclusive, both clamped to the length)
substring(str, from, to) ==
    LET e == IF to < Len(str) THEN to ELSE Len(str)
    IN IF from >= e THEN "" ELSE SubSeq(str, from + 1, e)

\* Math.random().toString(36): "0." and the base-36 digits of a number of
\* [0, 1).  A number such as 0.5 has few digits ("0.i"); the typical one
\* has ten or more.
RandomStrings == {"0.k3f9zq8a2m", "0.i"}

\* Math.random().toString(36).substring(2, 8).toUpperCase()
RoomIdOf(randomString) == toUpperCase(substring(randomString, 2, 8))

\* names of board files: what generateRoomId can return
R1 == RoomIdOf("0.k3f9zq8a2m")
R2 == RoomIdOf("0.i")
RoomIds == {RoomIdOf(m) : m \in RandomStrings}
\* handshake addresses of connecting clients
Addresses == {"ip1", "ip2"}
\* the identity every connection starts with
AnonymousInfo == [id |-> Null, username |-> "Anonymous"]
\* identities a client may assert with 'authenticate' (never validated)
UserInfos == {AnonymousInfo, [id |-> "u1", username |-> "alice"]}
UserIdValues == {u.id : u \in UserInfos}

BOARD_EXPIRY_DAYS == 14
ExpiryMs == BOARD_EXPIRY_DAYS * 24 * 60 * 60 * 1000

\* point sequences a client may put in a stroke
PointSeqs == {<<[x |-> 0, y |-> 0], [x |-> 10, y |-> 10]>>}
\* strokeData.id as sent by a client: a usable id, or none (the key is
\* missing from the object)
Absent == "absent"
\* ... or a falsy one (the key is there, holding "" / null / 0)
Falsy == ""
ClientStrokeIds == {"s1"}
StrokeDatas == [id : ClientStrokeIds \cup {Absent, Falsy}, points : PointSeqs]
\* ids a delete-stroke / update-strokes may name
Uuid(n) == "uuid-" \o ToString(n)
AllStrokeIds == ClientStrokeIds \cup {Uuid(n) : n \in 1..MaxUuids}

(***************************************************************************)
(* Sockets                                                                 *)
(***************************************************************************)
FreshSocket == [state |-> "fresh", userInfo |-> AnonymousInfo,
                address |-> Null, currentRoom |-> Null]
\* a disconnected socket object is unreachable (io.sockets.sockets no longer
\* holds it); its fields are never read again
ClosedSocket == [state |-> "closed", userInfo |-> AnonymousInfo,
                 address |-> Null, currentRoom |-> Null]
Live(s) == sockets[s].state = "live"

(***************************************************************************)
(* Board store                                                             *)
(***************************************************************************)
BoardExists(bs, r) == r \in DOMAIN bs

readBoard(bs, r) == bs[r]

\* mutant: the file not written
writeBoardLost(bs, r, b) == bs

\* boardData.lastModified = Date.now(); fs.writeFileSync(...), with the clock
\* reading t
writeBoardAt(bs, r, b, t) ==
    [q \in (DOMAIN bs) \cup {r} |->
        IF q = r THEN [b EXCEPT !.lastModified = t] ELSE bs[q]]

writeBoard(bs, r, b) == writeBoardAt(bs, r, b, now)

(***************************************************************************)
(* Effects of a handler, in program order                                  *)
(***************************************************************************)
EffWrite(r) == [kind |-> "write", event |-> "writeBoard", room |-> r,
                to |-> {}, data |-> <<>>]
EffEmit(ev, r, rcpts, d) == [kind |-> "emit", event |-> ev, room |-> r,
                             to |-> rcpts, data |-> d]
EffReply(s, d) == [kind |-> "reply", event |-> "callback", room |-> Null,
                   to |-> {s}, data |-> d]
EffDisconnect(s) == [kind |-> "disconnect", event |-> "disconnect", room |-> Null,
                     to |-> {s}, data |-> <<>>]

\* io.to(room): every connection socket.io holds in that room
InRoom(jn, r) == {s \in SocketIds : r \in jn[s]}
\* socket.to(room): the same, without the sender
InRoomExcept(jn, r, s) == InRoom(jn, r) \ {s}

(***************************************************************************)
(* The client page                                                         *)
(***************************************************************************)
\* a field that holds an object or null: no value, or the one value
None == << >>
Some(v) == << v >>

\* the room named in the page's URL (joinRoomFromURL: this.roomId)
PageRoom == R1
NoStrokes == [k \in {} |-> Null]
\* the constructor: the fields of WhiteboardApp that the handlers below read
\* or write (the camera stays at zoom 1 without offset, so that screen and
\* world positions are the same).  currentStroke names the stroke object of
\* the pen gesture: it is the object stored in this.strokes under that id,
\* unless the map has since dropped or replaced that entry, and then
\* currentDetached holds the object.  pointers counts the pointers that are
\* down on the canvas, and sent is what the last handler emitted.
NewClient ==
    [roomId |-> PageRoom,
     strokes |-> NoStrokes,
     isDrawing |-> FALSE,
     isErasing |-> FALSE,
     isPanning |-> FALSE,
     currentStroke |-> Null,
     currentDetached |-> None,
     currentTool |-> "pen",
     selectionRect |-> None,
     selectionStartWorld |-> None,
     selectedStrokeIds |-> {},
     isSelecting |-> FALSE,
     isDraggingSelection |-> FALSE,
     lastDragWorld |-> None,
     accumulatedDrag |-> [x |-> 0, y |-> 0],
     undoStack |-> << >>,
     redoStack |-> << >>,
     pointers |-> 0,
     clock |-> 0,
     sent |-> << >>]

\* the packets between the pages and the server that are still on their
\* way: up[c] from page c to the server, down[c] from the server to page c
NoTraffic == [up |-> [c \in SocketIds |-> << >>], down |-> [c \in SocketIds |-> << >>]]

(***************************************************************************)
(* Initial state: the process has started, data/boards is empty            *)
(***************************************************************************)
Init ==
    /\ sockets = [s \in SocketIds |-> FreshSocket]
    /\ joined = [s \in SocketIds |-> {}]
    /\ boards = [q \in {} |-> Null]
    /\ uuidCount = 0
    /\ now = 0
    /\ pendingUnlink = {}
    /\ out = << >>
    /\ clients = [c \in SocketIds |-> NewClient]
    /\ net = NoTraffic

(***************************************************************************)
(* io.on("connection"): a client connects from some address                *)
(***************************************************************************)
\* Addresses are interchangeable: the first one seen is called "ip1".
Connect(s, addr) ==
    /\ sockets[s].state = "fresh"
    /\ s = 1 => addr = "ip1"
    /\ \A t \in SocketIds : t < s => sockets[t].state # "fresh"
    /\ sockets' = [sockets EXCEPT ![s] = [state |-> "live", userInfo |-> AnonymousInfo,
                                          address |-> addr, currentRoom |-> Null]]
    /\ out' = << >>
    /\ UNCHANGED <<joined, boards, uuidCount, now, pendingUnlink>>

(***************************************************************************)
(* socket.on('authenticate')                                               *)
(***************************************************************************)
Authenticate(s, userData) ==
    /\ Live(s)
    /\ sockets' = [sockets EXCEPT ![s].userInfo = userData]
    /\ out' = << >>
    /\ UNCHANGED <<joined, boards, uuidCount, now, pendingUnlink>>

(***************************************************************************)
(* socket.on("create-room")                                                *)
(***************************************************************************)
\* Any name the expression can produce, drawn without consulting the
\* existing files.  The first name drawn in a run is taken to be R1.
generateRoomId == IF R1 \in DOMAIN boards THEN RoomIds ELSE {R1}

\* The handler reads the clock once for createdAt and again for expiryDate
\* (and for lastModified, which writeBoard then overwrites); the clock may
\* have moved on by d milliseconds between the first reading and the later
\* ones.
NewBoard(roomId, ownerId, d) ==
    [roomId |-> roomId, owner |-> ownerId,
     createdAt |-> now, lastModified |-> now + d, expiryDate |-> now + d + ExpiryMs,
     strokes |-> [k \in {} |-> Null], members |-> << >>, bannedIPs |-> << >>]

CreateRoom(s, roomId, d) ==
    /\ Live(s)
    /\ roomId \in generateRoomId
    \* rooms are created in the first MaxSkew milliseconds of the clock
    /\ now + d <= MaxSkew
    /\ boards' = writeBoardAt(boards, roomId,
                              NewBoard(roomId, sockets[s].userInfo.id, d), now + d)
    /\ now' = now + d
    /\ out' = << EffWrite(roomId),
                 EffReply(s, [success |-> TRUE, roomId |-> roomId]) >>
    /\ UNCHANGED <<sockets, joined, uuidCount, pendingUnlink>>

(***************************************************************************)
(* socket.on("join-room")                                                  *)
(***************************************************************************)
SeqContains(seq, v) == \E i \in 1..Len(seq) : seq[i] = v

\* mutant: the ban list not consulted
IsBannedNever(board, userIP) == FALSE

\* board.bannedIPs && board.bannedIPs.includes(userIP)
IsBanned(board, userIP) == SeqContains(board.bannedIPs, userIP)

\* mutant: the old room not left
RoomsAfterJoinNoLeave(rooms, currentRoom, roomId) == rooms \cup {roomId}

\* if (socket.currentRoom) socket.leave(socket.currentRoom); socket.join(roomId)
RoomsAfterJoin(rooms, currentRoom, roomId) ==
    (IF currentRoom # Null THEN rooms \ {currentRoom} ELSE rooms) \cup {roomId}

\* board.members.find(m => m.id === id): index of the first match, 0 if none
FindMemberById(members, id) ==
    IF \E i \in 1..Len(members) : members[i].id = id
    THEN CHOOSE i \in 1..Len(members) :
            /\ members[i].id = id
            /\ \A j \in 1..(i - 1) : members[j].id # id
    ELSE 0

\* mutant: the first record taken, whatever its socketId
FindMemberFirst(members, sid) == IF Len(members) > 0 THEN 1 ELSE 0

\* board.members.find(m => m.socketId === sid)
FindMemberBySocket(members, sid) ==
    IF \E i \in 1..Len(members) : members[i].socketId = sid
    THEN CHOOSE i \in 1..Len(members) :
            /\ members[i].socketId = sid
            /\ \A j \in 1..(i - 1) : members[j].socketId # sid
    ELSE 0

\* mutant: the list replaced by the joining member's record
UpsertMemberReplace(members, userInfo, sid) ==
    << [id |-> userInfo.id, username |-> userInfo.username,
        status |-> "online", socketId |-> sid] >>

\* mutant: a record appended on every join
UpsertMemberAppend(members, userInfo, sid) ==
    Append(members, [id |-> userInfo.id, username |-> userInfo.username,
                     status |-> "online", socketId |-> sid])

\* the member upsert of join-room
UpsertMember(members, userInfo, sid) ==
    LET i == FindMemberById(members, userInfo.id) IN
    IF i # 0
    THEN [members EXCEPT ![i].status = "online", ![i].socketId = sid]
    ELSE Append(members, [id |-> userInfo.id, username |-> userInfo.username,
                          status |-> "online", socketId |-> sid])

JoinReplyFail(msg) == [success |-> FALSE, message |-> msg, boardData |-> Null]
JoinReplyOk(board) == [success |-> TRUE, message |-> Null, boardData |-> board]

JoinRoom(s, roomId) ==
    /\ Live(s)
    /\ UNCHANGED <<uuidCount, now, pendingUnlink>>
    /\ IF ~BoardExists(boards, roomId)
       THEN /\ out' = << EffReply(s, JoinReplyFail("Room not found.")) >>
            /\ UNCHANGED <<sockets, joined, boards>>
       ELSE LET board == readBoard(boards, roomId) IN
            IF IsBanned(board, sockets[s].address)
            THEN /\ out' = << EffReply(s, JoinReplyFail("You are banned from this room.")) >>
                 /\ UNCHANGED <<sockets, joined, boards>>
            ELSE LET jn == [joined EXCEPT ![s] =
                               RoomsAfterJoin(joined[s], sockets[s].currentRoom, roomId)]
                     b2 == [board EXCEPT !.members =
                               UpsertMember(board.members, sockets[s].userInfo, s)]
                     bs == writeBoard(boards, roomId, b2)
                 IN /\ joined' = jn
                    /\ sockets' = [sockets EXCEPT ![s].currentRoom = roomId]
                    /\ boards' = bs
                    /\ out' = << EffWrite(roomId),
                                 EffReply(s, JoinReplyOk(bs[roomId])),
                                 EffEmit("update-members", roomId, InRoom(jn, roomId),
                                         bs[roomId].members) >>

(***************************************************************************)
(* socket.on("add-stroke")                                                 *)
(***************************************************************************)
\* strokeData.id || uuidv4()
NeedsUuid(strokeData) == strokeData.id \in {Absent, Falsy}

\* mutant: the client's id ignored
StrokeKeyAlwaysUuid(strokeData, uuid) == uuid

StrokeKey(strokeData, uuid) ==
    IF NeedsUuid(strokeData) THEN uuid ELSE strokeData.id

\* { id: strokeId, ...strokeData }: a key id of strokeData, whatever it holds,
\* replaces the id written first
StoredStroke(strokeId, strokeData) ==
    [id |-> IF strokeData.id = Absent THEN strokeId ELSE strokeData.id,
     points |-> strokeData.points]

PutStroke(strokes, k, v) ==
    [q \in (DOMAIN strokes) \cup {k} |-> IF q = k THEN v ELSE strokes[q]]

AddStroke(s, roomId, strokeData) ==
    /\ Live(s)
    /\ NeedsUuid(strokeData) /\ BoardExists(boards, roomId) => uuidCount < MaxUuids
    /\ UNCHANGED <<sockets, joined, now, pendingUnlink>>
    /\ IF ~BoardExists(boards, roomId)
       THEN /\ out' = << >>
            /\ UNCHANGED <<boards, uuidCount>>
       ELSE LET board == readBoard(boards, roomId)
                strokeId == StrokeKey(strokeData, Uuid(uuidCount + 1))
                b2 == [board EXCEPT !.strokes =
                          PutStroke(board.strokes, strokeId,
                                    StoredStroke(strokeId, strokeData))]
            IN /\ uuidCount' = IF NeedsUuid(strokeData) THEN uuidCount + 1 ELSE uuidCount
               /\ boards' = writeBoard(boards, roomId, b2)
               /\ out' = << EffWrite(roomId),
                            EffEmit("new-stroke", roomId, InRoom(joined, roomId),
                                    [strokeId |-> strokeId,
                                     strokeData |-> b2.strokes[strokeId]]) >>

(***************************************************************************)
(* socket.on("delete-stroke")                                              *)
(***************************************************************************)
\* mutant: a missing board reported to the caller
DeleteStrokeReportsMissing(s, roomId, strokeId) ==
    /\ Live(s)
    /\ ~BoardExists(boards, roomId)
    /\ out' = << EffReply(s, JoinReplyFail("Room not found.")) >>
    /\ UNCHANGED <<sockets, joined, boards, uuidCount, now, pendingUnlink>>

\* mutant: the presence check of delete-stroke dropped
HasStrokeAlways(board, strokeId) == TRUE

\* if (board.strokes[strokeId])
HasStroke(board, strokeId) == strokeId \in DOMAIN board.strokes

RemoveStroke(strokes, k) == [q \in (DOMAIN strokes) \ {k} |-> strokes[q]]

DeleteStroke(s, roomId, strokeId) ==
    /\ Live(s)
    /\ UNCHANGED <<sockets, joined, uuidCount, now, pendingUnlink>>
    /\ IF BoardExists(boards, roomId) /\ HasStroke(readBoard(boards, roomId), strokeId)
       THEN LET board == readBoard(boards, roomId)
                b2 == [board EXCEPT !.strokes = RemoveStroke(board.strokes, strokeId)]
            IN /\ boards' = writeBoard(boards, roomId, b2)
               /\ out' = << EffWrite(roomId),
                            EffEmit("stroke-deleted", roomId, InRoom(joined, roomId),
                                    strokeId) >>
       ELSE /\ out' = << >>
            /\ UNCHANGED boards

(***************************************************************************)
(* 'update-strokes': the server registers no listener for this event       *)
(* (the handlers of io.on("connection") are authenticate, create-room,     *)
(* join-room, add-stroke, delete-stroke, clear-board, cursor-move,         *)
(* viewport-update, kick-user, disconnect), so socket.io drops the packet. *)
(***************************************************************************)
UpdateStrokes(s, roomId, strokeIds, dx, dy) ==
    /\ Live(s)
    /\ out' = << >>
    /\ UNCHANGED <<sockets, joined, boards, uuidCount, now, pendingUnlink>>

(***************************************************************************)
(* socket.on("clear-board")                                                *)
(***************************************************************************)
\* mutant: the owner check of clear-board dropped
CanClearAnyone(board, userInfo) == TRUE

\* board.owner === socket.userInfo.id
CanClear(board, userInfo) == board.owner = userInfo.id

ClearBoard(s, roomId) ==
    /\ Live(s)
    /\ UNCHANGED <<sockets, joined, uuidCount, now, pendingUnlink>>
    /\ IF BoardExists(boards, roomId)
          /\ CanClear(readBoard(boards, roomId), sockets[s].userInfo)
       THEN LET b2 == [readBoard(boards, roomId) EXCEPT !.strokes = [k \in {} |-> Null]]
            IN /\ boards' = writeBoard(boards, roomId, b2)
               /\ out' = << EffWrite(roomId),
                            EffEmit("board-cleared", roomId, InRoom(joined, roomId), <<>>) >>
       ELSE /\ out' = << >>
            /\ UNCHANGED boards

(***************************************************************************)
(* socket.on('cursor-move')                                                *)
(***************************************************************************)
CursorMove(s, pos) ==
    /\ Live(s)
    /\ out' = << EffEmit("update-cursor", sockets[s].currentRoom,
                         InRoomExcept(joined, sockets[s].currentRoom, s),
                         [pos |-> pos, user |-> sockets[s].userInfo]) >>
    /\ UNCHANGED <<sockets, joined, boards, uuidCount, now, pendingUnlink>>

(***************************************************************************)
(* socket.on("disconnect")                                                 *)
(***************************************************************************)
\* What the disconnect handler of socket s does to the board files bs, and
\* what it emits.  socket.io has already taken s out of its rooms (jn).
DisconnectHandler(bs, jn, s) ==
    LET room == sockets[s].currentRoom IN
    IF room # Null /\ BoardExists(bs, room)
    THEN LET board == readBoard(bs, room)
             i == FindMemberBySocket(board.members, s)
         IN IF i # 0
            THEN LET b2 == [board EXCEPT !.members[i].status = "offline"]
                     bs2 == writeBoard(bs, room, b2)
                 IN [boards |-> bs2,
                     out |-> << EffWrite(room),
                                EffEmit("update-members", room, InRoom(jn, room),
                                        bs2[room].members) >>]
            ELSE [boards |-> bs, out |-> << >>]
    ELSE [boards |-> bs, out |-> << >>]

\* the client closes the connection, or the transport drops
Disconnect(s) ==
    /\ Live(s)
    /\ LET jn == [joined EXCEPT ![s] = {}]
           h == DisconnectHandler(boards, jn, s)
       IN /\ joined' = jn
          /\ boards' = h.boards
          /\ out' = <<EffDisconnect(s)>> \o h.out
    /\ sockets' = [sockets EXCEPT ![s] = ClosedSocket]
    /\ UNCHANGED <<uuidCount, now, pendingUnlink>>

(***************************************************************************)
(* socket.on('kick-user')                                                  *)
(***************************************************************************)
\* mutant: the owner check of kick-user dropped
CanKickAnyone(board, userInfo) == TRUE

\* board.owner === socket.userInfo.id
CanKick(board, userInfo) == board.owner = userInfo.id

\* mutant: no connection ever found
TargetSocketNever(socketId) == FALSE

\* io.sockets.sockets.get(socketId): the connected socket of that id, if any
TargetSocketLive(socketId) == Live(socketId)

\* board.bannedIPs.push(userIP)
BanAddress(bannedIPs, userIP) == Append(bannedIPs, userIP)

\* mutant: the board read again after the target's disconnect handler ran
HandlerCopyReread(board, onDisk) == onDisk

\* const board = readBoard(roomId): the object read at the start of the
\* handler is the one it edits and saves, whatever is on disk by then
HandlerCopy(board, onDisk) == board

KickUser(s, roomId, userIdToKick) ==
    /\ Live(s)
    /\ UNCHANGED <<uuidCount, now, pendingUnlink>>
    /\ IF BoardExists(boards, roomId)
          /\ CanKick(readBoard(boards, roomId), sockets[s].userInfo)
          /\ FindMemberById(readBoard(boards, roomId).members, userIdToKick) # 0
       THEN LET board == readBoard(boards, roomId)
                i == FindMemberById(board.members, userIdToKick)
                target == board.members[i].socketId
                found == TargetSocketLive(target)
                \* targetSocket.disconnect() runs the target's disconnect
                \* handler at once, against the files as they are on disk
                jn == IF found THEN [joined EXCEPT ![target] = {}] ELSE joined
                h == IF found THEN DisconnectHandler(boards, jn, target)
                     ELSE [boards |-> boards, out |-> << >>]
                base == HandlerCopy(board, readBoard(h.boards, roomId))
                banned == IF found
                          THEN BanAddress(base.bannedIPs, sockets[target].address)
                          ELSE base.bannedIPs
                b2 == [base EXCEPT !.bannedIPs = banned,
                                   !.members[i].status = "offline"]
                bs2 == writeBoard(h.boards, roomId, b2)
            IN /\ joined' = jn
               /\ sockets' = IF found THEN [sockets EXCEPT ![target] = ClosedSocket]
                             ELSE sockets
               /\ boards' = bs2
               /\ out' = (IF found
                          THEN << EffEmit("kicked", Null, {target},
                                    "You have been kicked and banned from this room."),
                                  EffDisconnect(target) >> \o h.out
                          ELSE << >>)
                         \o << EffWrite(roomId),
                               EffEmit("update-members", roomId, InRoom(jn, roomId),
                                       bs2[roomId].members) >>
       ELSE /\ out' = << >>
            /\ UNCHANGED <<sockets, joined, boards>>

(***************************************************************************)
(* The clock, and the hourly sweep of expired boards (setInterval)         *)
(***************************************************************************)
\* the clock is observed in its first MaxSkew milliseconds and in the MaxSkew
\* milliseconds that follow one expiry period
Tick(d) ==
    /\ d <= ExpiryMs + MaxSkew - now
    /\ now + d <= MaxSkew \/ now + d >= ExpiryMs
    /\ now' = now + d
    /\ out' = << >>
    /\ UNCHANGED <<sockets, joined, boards, uuidCount, pendingUnlink>>

\* fs.readdir callback: every board with now > expiryDate gets an fs.unlink
CleanupScan ==
    /\ pendingUnlink' = pendingUnlink \cup {r \in DOMAIN boards : now > boards[r].expiryDate}
    /\ out' = << >>
    /\ UNCHANGED <<sockets, joined, boards, uuidCount, now>>

\* an fs.unlink issued by the sweep completes
Unlink(r) ==
    /\ r \in pendingUnlink
    /\ pendingUnlink' = pendingUnlink \ {r}
    /\ boards' = [q \in (DOMAIN boards) \ {r} |-> boards[q]]
    /\ out' = << >>
    /\ UNCHANGED <<sockets, joined, uuidCount, now>>

(***************************************************************************)
(* Specification of the session manager: connections, identities, rooms,   *)
(* membership and moderation, from the start of the process.  The clock    *)
(* stands still here: none of the properties stated for this specification *)
(* reads a timestamp.                                                      *)
(***************************************************************************)
Next ==
    \/ \E s \in SocketIds, a \in Addresses : Connect(s, a) /\ UNCHANGED <<clients, net>>
    \/ \E s \in SocketIds, u \in UserInfos : Authenticate(s, u) /\ UNCHANGED <<clients, net>>
    \/ \E s \in SocketIds, r \in RoomIds : CreateRoom(s, r, 0) /\ UNCHANGED <<clients, net>>
    \/ \E s \in SocketIds, r \in RoomIds : JoinRoom(s, r) /\ UNCHANGED <<clients, net>>
    \/ \E s \in SocketIds, r \in RoomIds, u \in UserIdValues : KickUser(s, r, u)
          /\ UNCHANGED <<clients, net>>
    \/ \E s \in SocketIds : Disconnect(s) /\ UNCHANGED <<clients, net>>

Spec == Init /\ [][Next]_vars

(***************************************************************************)
(* Specification of the stroke mutation protocol.  It starts where two     *)
(* clients are connected, the first as "u1" and the second anonymous, and  *)
(* each has created a room (R1 is owned by "u1", R2 by the null identity); *)
(* the clients then join rooms and send stroke requests in any order,      *)
(* also for a room name that has no board.                                 *)
(***************************************************************************)
InitStrokes ==
    /\ sockets = [s \in SocketIds |->
                    [state |-> "live",
                     userInfo |-> IF s = 1 THEN [id |-> "u1", username |-> "alice"]
                                  ELSE AnonymousInfo,
                     address |-> IF s = 1 THEN "ip1" ELSE "ip2",
                     currentRoom |-> Null]]
    /\ joined = [s \in SocketIds |-> {}]
    /\ boards = [q \in RoomIds |->
                    [roomId |-> q, owner |-> IF q = R1 THEN "u1" ELSE Null,
                     createdAt |-> 0, lastModified |-> 0, expiryDate |-> ExpiryMs,
                     strokes |-> [k \in {} |-> Null], members |-> << >>,
                     bannedIPs |-> << >>]]
    /\ uuidCount = 0
    /\ now = 0
    /\ pendingUnlink = {}
    /\ out = << >>
    /\ clients = [c \in SocketIds |-> NewClient]
    /\ net = NoTraffic

\* deltas an update-strokes / strokes-updated may carry
Deltas == {[dx |-> 5, dy |-> 0 - 3], [dx |-> 0 - 2, dy |-> 7]}
\* cursor positions a cursor-move may carry
CursorPositions == {[x |-> 1, y |-> 2]}

\* room names a client may put in a request: the boards' names and one that
\* names no board
RequestRoomIds == RoomIds \cup {"R9"}

NextStrokes ==
    \/ \E s \in SocketIds, r \in RequestRoomIds : JoinRoom(s, r) /\ UNCHANGED <<clients, net>>
    \/ \E s \in SocketIds, r \in RequestRoomIds, sd \in StrokeDatas : AddStroke(s, r, sd)
          /\ UNCHANGED <<clients, net>>
    \/ \E s \in SocketIds, r \in RequestRoomIds, k \in AllStrokeIds : DeleteStroke(s, r, k)
          /\ UNCHANGED <<clients, net>>
    \/ \E s \in SocketIds, r \in RequestRoomIds, ks \in SUBSET AllStrokeIds, d \in Deltas :
          UpdateStrokes(s, r, ks, d.dx, d.dy) /\ UNCHANGED <<clients, net>>
    \/ \E s \in SocketIds, r \in RequestRoomIds : ClearBoard(s, r) /\ UNCHANGED <<clients, net>>
    \/ \E s \in SocketIds, p \in CursorPositions : CursorMove(s, p) /\ UNCHANGED <<clients, net>>

SpecStrokes == InitStrokes /\ [][NextStrokes]_vars

(***************************************************************************)
(* Specification of the life of one room.  It starts in the same state as  *)
(* the stroke protocol; the two clients change identity, join, draw,       *)
(* erase, clear, kick and disconnect in any order, in room R1 and in a     *)
(* room name that has no board.                                            *)
(***************************************************************************)
LifeRoomIds == {R1, "R9"}

NextLife ==
    \/ \E s \in SocketIds, u \in UserInfos : Authenticate(s, u) /\ UNCHANGED <<clients, net>>
    \/ \E s \in SocketIds, r \in LifeRoomIds : JoinRoom(s, r) /\ UNCHANGED <<clients, net>>
    \/ \E s \in SocketIds, r \in LifeRoomIds, sd \in StrokeDatas : AddStroke(s, r, sd)
          /\ UNCHANGED <<clients, net>>
    \/ \E s \in SocketIds, r \in LifeRoomIds, k \in AllStrokeIds : DeleteStroke(s, r, k)
          /\ UNCHANGED <<clients, net>>
    \/ \E s \in SocketIds, r \in LifeRoomIds : ClearBoard(s, r) /\ UNCHANGED <<clients, net>>
    \/ \E s \in SocketIds, r \in LifeRoomIds, u \in UserIdValues : KickUser(s, r, u)
          /\ UNCHANGED <<clients, net>>
    \/ \E s \in SocketIds : Disconnect(s) /\ UNCHANGED <<clients, net>>

SpecLife == InitStrokes /\ [][NextLife]_vars

(***************************************************************************)
(* Specification of board creation and expiry: one client connects,        *)
(* creates rooms and joins them while the clock advances, within a         *)
(* handler (between two readings of Date.now()) and between handlers, and  *)
(* the hourly sweep unlinks the boards whose expiryDate has passed.        *)
(***************************************************************************)
\* clock advances between handlers: a millisecond, or a whole expiry period
TickSteps == {1, ExpiryMs}

NextExpiry ==
    \/ \E a \in Addresses : Connect(1, a) /\ UNCHANGED <<clients, net>>
    \/ \E u \in UserInfos : Authenticate(1, u) /\ UNCHANGED <<clients, net>>
    \/ \E r \in RoomIds, d \in 0..MaxSkew : CreateRoom(1, r, d) /\ UNCHANGED <<clients, net>>
    \/ \E r \in RoomIds : JoinRoom(1, r) /\ UNCHANGED <<clients, net>>
    \/ \E d \in TickSteps : Tick(d) /\ UNCHANGED <<clients, net>>
    \/ CleanupScan /\ UNCHANGED <<clients, net>>
    \/ \E r \in RoomIds : Unlink(r) /\ UNCHANGED <<clients, net>>

SpecExpiry == Init /\ [][NextExpiry]_vars

(***************************************************************************)
(* The client's socket listeners for stroke events (setupSocketListeners)  *)
(***************************************************************************)
serverVars == <<sockets, joined, boards, uuidCount, now, pendingUnlink, out>>

\* the stroke object the pen gesture writes to is the one in this.strokes
Linked(cl) == cl.currentStroke # Null /\ cl.currentDetached = None

\* the entries ks of this.strokes are about to be dropped or replaced: the
\* object of the pen gesture, if it is one of them, lives on in currentStroke
KeepCurrent(cl, ks) ==
    IF Linked(cl) /\ cl.currentStroke \in ks /\ cl.currentStroke \in DOMAIN cl.strokes
    THEN [cl EXCEPT !.currentDetached = Some(cl.strokes[cl.currentStroke])]
    ELSE cl

\* a handler starts with nothing emitted
Fresh(cl) == [cl EXCEPT !.sent = << >>]

\* a stroke is followed while it has no more than MaxPoints points
ShortEnough(stroke) == Len(stroke.points) <= MaxPoints

\* the coordinates of every stroke are within the range that is followed
WithinRange(strokes) ==
    \A k \in DOMAIN strokes : \A i \in DOMAIN strokes[k].points :
        /\ strokes[k].points[i].x \in (0 - MaxCoord)..MaxCoord
        /\ strokes[k].points[i].y \in (0 - MaxCoord)..MaxCoord

\* one handler of page c runs and leaves the page as new; the server is not
\* involved.  The guards keep the history, the strokes and the coordinates
\* within the bounds of the model.
ClientStep(c, new) ==
    /\ Len(new.undoStack) + Len(new.redoStack) <= MaxHistory
    /\ WithinRange(new.strokes)
    /\ \A k \in DOMAIN new.strokes : ShortEnough(new.strokes[k])
    /\ new.currentDetached # None => ShortEnough(new.currentDetached[1])
    /\ clients' = [clients EXCEPT ![c] = new]
    /\ UNCHANGED serverVars

\* socket.on('new-stroke'): this.strokes[strokeId] = strokeData
OnNewStroke(c, strokeId, strokeData) ==
    LET cl == KeepCurrent(Fresh(clients[c]), {strokeId})
    IN /\ clients' = [clients EXCEPT ![c] =
                         [cl EXCEPT !.strokes = PutStroke(@, strokeId, strokeData)]]
       /\ UNCHANGED serverVars

\* socket.on('stroke-deleted'): delete this.strokes[strokeId]
OnStrokeDeleted(c, strokeId) ==
    LET cl == KeepCurrent(Fresh(clients[c]), {strokeId})
    IN /\ clients' = [clients EXCEPT ![c] =
                         [cl EXCEPT !.strokes = RemoveStroke(@, strokeId)]]
       /\ UNCHANGED serverVars

\* socket.on('board-cleared'): this.strokes = {}
OnBoardCleared(c) ==
    LET cl == KeepCurrent(Fresh(clients[c]), DOMAIN clients[c].strokes)
    IN /\ clients' = [clients EXCEPT ![c] = [cl EXCEPT !.strokes = NoStrokes]]
       /\ UNCHANGED serverVars

\* mutant: the strokes that are not named are pinned to x = dx
StrokesUpdatedPinning(strokes, strokeIds, dx, dy) ==
    [k \in DOMAIN strokes |->
        [strokes[k] EXCEPT !.points =
            [i \in DOMAIN strokes[k].points |->
                IF k \in strokeIds
                THEN [x |-> strokes[k].points[i].x + dx, y |-> strokes[k].points[i].y + dy]
                ELSE [x |-> dx, y |-> strokes[k].points[i].y]]]]

\* for (const id of strokeIds) { const s = this.strokes[id]; if (!s ...) continue;
\*   for (const p of s.points) { p.x += dx; p.y += dy } }
StrokesUpdated(strokes, strokeIds, dx, dy) ==
    [k \in DOMAIN strokes |->
        IF k \in strokeIds
        THEN [strokes[k] EXCEPT !.points =
                 [i \in DOMAIN strokes[k].points |->
                     [x |-> strokes[k].points[i].x + dx,
                      y |-> strokes[k].points[i].y + dy]]]
        ELSE strokes[k]]

\* this.selectionRect.x += dx; this.selectionRect.y += dy, when there is a
\* rectangle
MoveRect(rect, dx, dy) ==
    IF rect = None THEN None
    ELSE Some([rect[1] EXCEPT !.x = @ + dx, !.y = @ + dy])

\* socket.on('strokes-updated')
OnStrokesUpdated(c, strokeIds, dx, dy) ==
    LET cl == Fresh(clients[c])
    IN /\ WithinRange(StrokesUpdated(cl.strokes, strokeIds, dx, dy))
       /\ clients' = [clients EXCEPT ![c] =
              [cl EXCEPT !.strokes = StrokesUpdated(@, strokeIds, dx, dy),
                         !.selectionRect =
                             IF cl.isDraggingSelection THEN MoveRect(@, dx, dy) ELSE @]]
       /\ UNCHANGED serverVars

(***************************************************************************)
(* Specification of a client's local stroke map under the stroke events it *)
(* can be sent, in any order and with any content.                         *)
(***************************************************************************)
NextMoves ==
    \/ \E k \in AllStrokeIds, p \in PointSeqs :
          OnNewStroke(1, k, [id |-> k, points |-> p]) /\ UNCHANGED net
    \/ \E k \in AllStrokeIds : OnStrokeDeleted(1, k) /\ UNCHANGED net
    \/ OnBoardCleared(1) /\ UNCHANGED net
    \/ \E ks \in SUBSET AllStrokeIds, d \in Deltas :
          OnStrokesUpdated(1, ks, d.dx, d.dy) /\ UNCHANGED net

SpecMoves == Init /\ [][NextMoves]_vars

(***************************************************************************)
(* The page's handlers of user input.  Each handler is a function from the *)
(* page's fields to its fields after the handler; what it emits is         *)
(* appended to sent.  Strokes are followed by their id and points (colour  *)
(* and size are carried along unread by every handler).                    *)
(***************************************************************************)
\* positions the pointer is followed at
WorldPoints == {[x |-> 0, y |-> 0], [x |-> 10, y |-> 10], [x |-> 10, y |-> 0]}
Tools == {"pen", "eraser", "select"}
\* 'temp-' + Date.now()
TempId(t) == "temp-" \o ToString(t)
ClientTimes == 1..MaxTemps

\* this.socket.emit(event, data)
Emit(cl, event, data) == [cl EXCEPT !.sent = Append(@, [event |-> event, data |-> data])]

\* JSON.parse(JSON.stringify(strokes)): a copy that shares no object with the
\* map; ids are strings and coordinates finite numbers, which JSON keeps
JsonCopy(strokes) == [k \in DOMAIN strokes |-> [id |-> strokes[k].id, points |-> strokes[k].points]]

\* the keys of a map in some order of enumeration (for ... in)
RECURSIVE KeysInOrder(_)
KeysInOrder(ks) ==
    IF ks = {} THEN << >>
    ELSE LET k == CHOOSE q \in ks : TRUE IN << k >> \o KeysInOrder(ks \ {k})

\* --- Selection Helpers ---
Min(a, b) == IF a < b THEN a ELSE b
Abs(a) == IF a < 0 THEN 0 - a ELSE a
rectFromPoints(a, b) ==
    [x |-> Min(a.x, b.x), y |-> Min(a.y, b.y), w |-> Abs(a.x - b.x), h |-> Abs(a.y - b.y)]

strokeBoundingBox(stroke) ==
    IF Len(stroke.points) = 0 THEN [x |-> 0, y |-> 0, w |-> 0, h |-> 0]
    ELSE LET xs == {stroke.points[i].x : i \in DOMAIN stroke.points}
             ys == {stroke.points[i].y : i \in DOMAIN stroke.points}
             minX == CHOOSE v \in xs : \A u \in xs : v <= u
             maxX == CHOOSE v \in xs : \A u \in xs : v >= u
             minY == CHOOSE v \in ys : \A u \in ys : v <= u
             maxY == CHOOSE v \in ys : \A u \in ys : v >= u
         IN [x |-> minX, y |-> minY, w |-> maxX - minX, h |-> maxY - minY]

rectsIntersect(a, b) ==
    a.x < b.x + b.w /\ a.x + a.w > b.x /\ a.y < b.y + b.h /\ a.y + a.h > b.y

pointInRect(p, r) == p.x >= r.x /\ p.x <= r.x + r.w /\ p.y >= r.y /\ p.y <= r.y + r.h

\* --- History Helpers ---
\* mutant: the redo stack kept
pushHistoryKeepsRedo(cl, op) == [cl EXCEPT !.undoStack = Append(@, op)]

pushHistory(cl, op) == [cl EXCEPT !.undoStack = Append(@, op), !.redoStack = << >>]

Top(stack) == stack[Len(stack)]
Pop(stack) == SubSeq(stack, 1, Len(stack) - 1)

\* for (const id in this.strokes) this.socket.emit('add-stroke', ...)
RECURSIVE EmitEach(_, _)
EmitEach(cl, ids) ==
    IF Len(ids) = 0 THEN cl
    ELSE EmitEach(Emit(cl, "add-stroke",
                       [roomId |-> cl.roomId, strokeData |-> cl.strokes[ids[1]]]),
                  SubSeq(ids, 2, Len(ids)))

\* mutant: undo of a move repeats the move
UndoMoveDelta(v) == v
NegatedDelta(v) == 0 - v

undo(cl) ==
    IF Len(cl.undoStack) = 0 THEN cl
    ELSE LET op == Top(cl.undoStack)
             c1 == [cl EXCEPT !.undoStack = Pop(@)]
             toRedo(c2) == [c2 EXCEPT !.redoStack = Append(@, op)]
         IN CASE op.type = "add" ->
                   toRedo(IF op.strokeId \in DOMAIN c1.strokes
                          THEN Emit(c1, "delete-stroke",
                                    [roomId |-> c1.roomId, strokeId |-> op.strokeId])
                          ELSE c1)
              [] op.type = "delete" ->
                   toRedo(Emit(c1, "add-stroke",
                               [roomId |-> c1.roomId, strokeData |-> op.strokeData]))
              [] op.type = "move" ->
                   toRedo(Emit(c1, "update-strokes",
                               [roomId |-> c1.roomId, strokeIds |-> op.strokeIds,
                                dx |-> NegatedDelta(op.dx), dy |-> NegatedDelta(op.dy)]))
              [] op.type = "clear" ->
                   LET c2 == KeepCurrent(c1, DOMAIN c1.strokes)
                       c3 == [c2 EXCEPT !.strokes = JsonCopy(op.before)]
                   IN toRedo(EmitEach(c3, KeysInOrder(DOMAIN c3.strokes)))

redo(cl) ==
    IF Len(cl.redoStack) = 0 THEN cl
    ELSE LET op == Top(cl.redoStack)
             c1 == [cl EXCEPT !.redoStack = Pop(@)]
             toUndo(c2) == [c2 EXCEPT !.undoStack = Append(@, op)]
         IN CASE op.type = "add" -> toUndo(c1)
              [] op.type = "delete" ->
                   toUndo(Emit(c1, "delete-stroke",
                               [roomId |-> c1.roomId, strokeId |-> op.strokeId]))
              [] op.type = "move" ->
                   toUndo(Emit(c1, "update-strokes",
                               [roomId |-> c1.roomId, strokeIds |-> op.strokeIds,
                                dx |-> op.dx, dy |-> op.dy]))
              [] op.type = "clear" -> toUndo(Emit(c1, "clear-board", c1.roomId))

\* the click handler of #clearBoard, the user having confirmed
clearBoardClick(cl) ==
    LET snapshot == JsonCopy(cl.strokes)
    IN Emit(pushHistory(cl, [type |-> "clear", before |-> snapshot]),
            "clear-board", cl.roomId)

\* --- Tool Logic ---
selectTool(cl, tool) == [cl EXCEPT !.currentTool = tool]

\* ERASE_RADIUS = 20 / this.camera.zoom, squared
EraseRadiusSq == 400
DistSq(p, q) == (p.x - q.x) * (p.x - q.x) + (p.y - q.y) * (p.y - q.y)
\* the least distance of a point of the stroke to the position, squared
StrokeDistSq(stroke, pos) ==
    LET ds == {DistSq(stroke.points[i], pos) : i \in DOMAIN stroke.points}
    IN CHOOSE d \in ds : \A e \in ds : d <= e
\* the strokes the loop of eraseAt can end on: those whose distance is least
\* (of several at the same distance the first in the order of the keys
\* wins, and that order is not followed here)
ClosestStrokeIds(strokes, pos) ==
    {k \in DOMAIN strokes :
        /\ Len(strokes[k].points) > 0
        /\ \A q \in DOMAIN strokes :
              Len(strokes[q].points) > 0 =>
                  StrokeDistSq(strokes[k], pos) <= StrokeDistSq(strokes[q], pos)}
ClosestChoices(strokes, pos) ==
    IF ClosestStrokeIds(strokes, pos) = {} THEN {Null} ELSE ClosestStrokeIds(strokes, pos)

eraseAt(cl, worldPos, closestStrokeId) ==
    IF closestStrokeId # Null
       /\ StrokeDistSq(cl.strokes[closestStrokeId], worldPos) < EraseRadiusSq
    THEN LET removed == cl.strokes[closestStrokeId]
             c1 == KeepCurrent(cl, {closestStrokeId})
             c2 == [c1 EXCEPT !.strokes = RemoveStroke(@, closestStrokeId)]
             c3 == pushHistory(c2, [type |-> "delete", strokeId |-> closestStrokeId,
                                    strokeData |-> removed])
         IN Emit(c3, "delete-stroke", [roomId |-> cl.roomId, strokeId |-> closestStrokeId])
    ELSE cl

\* --- Event Handlers ---
\* the stroke object of the pen gesture
CurrentObject(cl) ==
    IF Linked(cl) THEN cl.strokes[cl.currentStroke] ELSE cl.currentDetached[1]

\* touches is the number of fingers on the screen (1 for a mouse), t the
\* reading of Date.now(), closestStrokeId what the loop of eraseAt ends on
onPointerDown(cl, worldPos, touches, t, closestStrokeId) ==
    IF touches = 2
    THEN [cl EXCEPT !.isDrawing = FALSE, !.isErasing = FALSE, !.isPanning = TRUE]
    ELSE CASE cl.currentTool = "pen" ->
                LET strokeId == TempId(t)
                    c1 == KeepCurrent(cl, {strokeId})
                IN [c1 EXCEPT !.isDrawing = TRUE,
                              !.currentStroke = strokeId,
                              !.currentDetached = None,
                              !.strokes = PutStroke(@, strokeId,
                                              [id |-> strokeId, points |-> << worldPos >>])]
           [] cl.currentTool = "eraser" ->
                eraseAt([cl EXCEPT !.isErasing = TRUE], worldPos, closestStrokeId)
           [] cl.currentTool = "select" ->
                IF cl.selectionRect # None /\ pointInRect(worldPos, cl.selectionRect[1])
                THEN [cl EXCEPT !.isDraggingSelection = TRUE,
                                !.lastDragWorld = Some(worldPos),
                                !.accumulatedDrag = [x |-> 0, y |-> 0]]
                ELSE [cl EXCEPT !.isSelecting = TRUE,
                                !.selectionStartWorld = Some(worldPos),
                                !.selectionRect =
                                    Some([x |-> worldPos.x, y |-> worldPos.y, w |-> 0, h |-> 0]),
                                !.selectedStrokeIds = {}]

\* this.currentStroke.points.push(worldPos)
PushPoint(cl, worldPos) ==
    IF Linked(cl)
    THEN [cl EXCEPT !.strokes[cl.currentStroke].points = Append(@, worldPos)]
    ELSE [cl EXCEPT !.currentDetached = Some([@[1] EXCEPT !.points = Append(@, worldPos)])]

onPointerMove(cl, worldPos, touches, closestStrokeId) ==
    IF touches = 2 THEN cl
    ELSE LET c1 == Emit(cl, "cursor-move", [pos |-> worldPos])
         IN IF c1.isPanning THEN c1
            ELSE IF c1.isDrawing /\ c1.currentTool = "pen" THEN PushPoint(c1, worldPos)
            ELSE IF c1.isErasing /\ c1.currentTool = "eraser"
                 THEN eraseAt(c1, worldPos, closestStrokeId)
            ELSE IF c1.currentTool = "select"
                 THEN IF c1.isSelecting
                      THEN [c1 EXCEPT !.selectionRect =
                               Some(rectFromPoints(c1.selectionStartWorld[1], worldPos))]
                      ELSE IF c1.isDraggingSelection /\ c1.selectedStrokeIds # {}
                           THEN LET dx == worldPos.x - c1.lastDragWorld[1].x
                                    dy == worldPos.y - c1.lastDragWorld[1].y
                                IN IF dx # 0 \/ dy # 0
                                   THEN [c1 EXCEPT
                                           !.strokes = StrokesUpdated(@, c1.selectedStrokeIds,
                                                                      dx, dy),
                                           !.selectionRect = MoveRect(@, dx, dy),
                                           !.accumulatedDrag =
                                               [x |-> @.x + dx, y |-> @.y + dy],
                                           !.lastDragWorld = Some(worldPos)]
                                   ELSE c1
                           ELSE c1
                 ELSE c1

\* this.currentStroke.points.length > 1
LongEnough(stroke) == Len(stroke.points) > 1

\* mutant: a drag is reported whatever it adds up to
DragMovedAlways(drag) == TRUE
\* this.accumulatedDrag.x !== 0 || this.accumulatedDrag.y !== 0
DragMoved(drag) == drag.x # 0 \/ drag.y # 0

\* the strokes a finished marquee picks
Picked(strokes, rect) ==
    {k \in DOMAIN strokes : rectsIntersect(strokeBoundingBox(strokes[k]), rect)}

onPointerUp(cl) ==
    LET c0 == [cl EXCEPT !.isPanning = FALSE, !.isErasing = FALSE]
        c1 == IF c0.isDrawing
              THEN LET cur == CurrentObject(c0)
                       c2 == IF LongEnough(cur)
                             THEN pushHistory(
                                      Emit(c0, "add-stroke",
                                           [roomId |-> c0.roomId, strokeData |-> cur]),
                                      [type |-> "add", strokeId |-> cur.id])
                             ELSE [c0 EXCEPT !.strokes = RemoveStroke(@, cur.id)]
                   IN [c2 EXCEPT !.isDrawing = FALSE, !.currentStroke = Null,
                                 !.currentDetached = None]
              ELSE c0
    IN IF c1.currentTool = "select"
       THEN IF c1.isSelecting /\ c1.selectionRect # None
            THEN [c1 EXCEPT !.selectedStrokeIds = Picked(c1.strokes, c1.selectionRect[1]),
                            !.isSelecting = FALSE]
            ELSE IF c1.isDraggingSelection
                 THEN LET c3 == [c1 EXCEPT !.isDraggingSelection = FALSE]
                      IN IF DragMoved(c3.accumulatedDrag)
                         THEN LET ids == c3.selectedStrokeIds
                                  dx == c3.accumulatedDrag.x
                                  dy == c3.accumulatedDrag.y
                              IN pushHistory(
                                     Emit(c3, "update-strokes",
                                          [roomId |-> c3.roomId, strokeIds |-> ids,
                                           dx |-> dx, dy |-> dy]),
                                     [type |-> "move", strokeIds |-> ids,
                                      dx |-> dx, dy |-> dy])
                         ELSE c3
                 ELSE c1
       ELSE c1

(***************************************************************************)
(* The events of the page: a handler runs on the fields of page c.  Of the *)
(* pointers, one goes down when none is down (a mouse button or a first    *)
(* finger), a second finger goes down when one is; a release or the        *)
(* pointer leaving the canvas (mouseup, mouseout, touchend) can come at    *)
(* any time.  The clock of a page has advanced between two pen gestures.   *)
(***************************************************************************)
OnPointerDown(c, worldPos, touches, t) ==
    /\ touches = clients[c].pointers + 1
    /\ (touches = 1 /\ clients[c].currentTool = "pen") => t > clients[c].clock
    /\ \E k \in ClosestChoices(clients[c].strokes, worldPos) :
          LET cl == onPointerDown(Fresh(clients[c]), worldPos, touches, t, k)
              penDown == touches = 1 /\ clients[c].currentTool = "pen"
          IN ClientStep(c, [cl EXCEPT !.pointers = touches,
                                      !.clock = IF penDown THEN t ELSE @])

OnPointerMove(c, worldPos, touches) ==
    /\ touches = clients[c].pointers \/ (touches = 1 /\ clients[c].pointers = 0)
    /\ \E k \in ClosestChoices(clients[c].strokes, worldPos) :
          ClientStep(c, onPointerMove(Fresh(clients[c]), worldPos, touches, k))

OnPointerUp(c) ==
    ClientStep(c, [onPointerUp(Fresh(clients[c])) EXCEPT
                      !.pointers = IF @ > 0 THEN @ - 1 ELSE 0])

SelectTool(c, tool) == ClientStep(c, selectTool(Fresh(clients[c]), tool))

ClearBoardClick(c) == ClientStep(c, clearBoardClick(Fresh(clients[c])))

Undo(c) == ClientStep(c, undo(Fresh(clients[c])))

Redo(c) == ClientStep(c, redo(Fresh(clients[c])))

(***************************************************************************)
(* Specification of the history of one page: the user draws a stroke from  *)
(* the first position to the second, erases, selects and drags it along    *)
(* the same way, clears, undoes and redoes, in any order.                  *)
(***************************************************************************)
HistoryDown == {[x |-> 0, y |-> 0]}
HistoryMove == {[x |-> 10, y |-> 10]}

NextHistory ==
    \/ \E p \in HistoryDown : OnPointerDown(1, p, 1, 1) /\ UNCHANGED net
    \/ \E p \in HistoryMove : OnPointerMove(1, p, 1) /\ UNCHANGED net
    \/ OnPointerUp(1) /\ UNCHANGED net
    \/ \E tool \in Tools : SelectTool(1, tool) /\ UNCHANGED net
    \/ ClearBoardClick(1) /\ UNCHANGED net
    \/ Undo(1) /\ UNCHANGED net
    \/ Redo(1) /\ UNCHANGED net

SpecHistory == InitStrokes /\ [][NextHistory]_vars

(***************************************************************************)
(* Specification of selecting and dragging on one page.  In the initial    *)
(* state the first connection has joined R1, whose board holds two strokes *)
(* drawn earlier, the page has taken them from the reply, and the user has *)
(* picked the select tool; the pointer then goes down, moves and is        *)
(* released at the positions of WorldPoints in any order.                  *)
(***************************************************************************)
SelectStrokes ==
    (TempId(1) :> [id |-> TempId(1), points |-> <<[x |-> 0, y |-> 0], [x |-> 10, y |-> 10]>>])
    @@ (TempId(2) :> [id |-> TempId(2), points |-> <<[x |-> 10, y |-> 0], [x |-> 10, y |-> 10]>>])

InitSelect ==
    /\ sockets = [s \in SocketIds |->
                    [state |-> "live",
                     userInfo |-> IF s = 1 THEN [id |-> "u1", username |-> "alice"]
                                  ELSE AnonymousInfo,
                     address |-> IF s = 1 THEN "ip1" ELSE "ip2",
                     currentRoom |-> IF s = 1 THEN R1 ELSE Null]]
    /\ joined = [s \in SocketIds |-> IF s = 1 THEN {R1} ELSE {}]
    /\ boards = [q \in RoomIds |->
                    [roomId |-> q, owner |-> IF q = R1 THEN "u1" ELSE Null,
                     createdAt |-> 0, lastModified |-> 0, expiryDate |-> ExpiryMs,
                     strokes |-> IF q = R1 THEN SelectStrokes ELSE NoStrokes,
                     members |-> IF q = R1
                                 THEN << [id |-> "u1", username |-> "alice",
                                          status |-> "online", socketId |-> 1] >>
                                 ELSE << >>,
                     bannedIPs |-> << >>]]
    /\ uuidCount = 0
    /\ now = 0
    /\ pendingUnlink = {}
    /\ out = << >>
    /\ clients = [c \in SocketIds |->
                    IF c = 1
                    THEN [NewClient EXCEPT !.strokes = SelectStrokes,
                                           !.currentTool = "select"]
                    ELSE NewClient]
    /\ net = NoTraffic

NextSelect ==
    \/ \E p \in WorldPoints, n \in 1..2 : OnPointerDown(1, p, n, 1) /\ UNCHANGED net
    \/ \E p \in WorldPoints, n \in 1..2 : OnPointerMove(1, p, n) /\ UNCHANGED net
    \/ OnPointerUp(1) /\ UNCHANGED net

SpecSelect == InitSelect /\ [][NextSelect]_vars

(***************************************************************************)
(* Specification of drawing on one page: with the pen tool the pointer     *)
(* goes down, moves and is released at the positions of WorldPoints, and a *)
(* second finger may come down, in any order.                              *)
(***************************************************************************)
NextPen ==
    \/ \E p \in WorldPoints, n \in 1..2, t \in ClientTimes :
          OnPointerDown(1, p, n, t) /\ UNCHANGED net
    \/ \E p \in WorldPoints, n \in 1..2 : OnPointerMove(1, p, n) /\ UNCHANGED net
    \/ OnPointerUp(1) /\ UNCHANGED net

SpecPen == InitStrokes /\ [][NextPen]_vars

(***************************************************************************)
(* Pages and server together.  What a handler of page c emits is put on    *)
(* the connection of c; the server takes the packets of one connection in  *)
(* the order they were sent and runs the listener of the event, and what   *)
(* that listener emits is put on the connections of its recipients, which  *)
(* the pages take in order.                                                *)
(***************************************************************************)
\* the handler of page c that has just run has sent its packets
Sends(c) ==
    /\ Len(net.up[c]) + Len(clients'[c].sent) <= MaxInFlight
    /\ net' = [net EXCEPT !.up[c] = @ \o clients'[c].sent]

\* the packets that the log of a server handler holds for connection r
RECURSIVE PacketsFor(_, _)
PacketsFor(effects, r) ==
    IF Len(effects) = 0 THEN << >>
    ELSE LET e == effects[1]
             rest == PacketsFor(SubSeq(effects, 2, Len(effects)), r)
         IN IF e.kind = "emit" /\ r \in e.to
            THEN << [event |-> e.event, data |-> e.data] >> \o rest
            ELSE rest

\* the server has taken the first packet of connection c and its listener
\* has run
Served(c) ==
    /\ \A r \in SocketIds : Len(net.down[r]) + Len(PacketsFor(out', r)) <= MaxInFlight
    /\ net' = [up |-> [net.up EXCEPT ![c] = Tail(@)],
               down |-> [r \in SocketIds |-> net.down[r] \o PacketsFor(out', r)]]
    /\ UNCHANGED clients

Arrived(c, ev) == Len(net.up[c]) > 0 /\ Head(net.up[c]).event = ev

ServeAddStroke(c) ==
    /\ Arrived(c, "add-stroke")
    /\ AddStroke(c, Head(net.up[c]).data.roomId, Head(net.up[c]).data.strokeData)
    /\ Served(c)

ServeDeleteStroke(c) ==
    /\ Arrived(c, "delete-stroke")
    /\ DeleteStroke(c, Head(net.up[c]).data.roomId, Head(net.up[c]).data.strokeId)
    /\ Served(c)

ServeUpdateStrokes(c) ==
    /\ Arrived(c, "update-strokes")
    /\ LET d == Head(net.up[c]).data
       IN UpdateStrokes(c, d.roomId, d.strokeIds, d.dx, d.dy)
    /\ Served(c)

ServeClearBoard(c) ==
    /\ Arrived(c, "clear-board")
    /\ ClearBoard(c, Head(net.up[c]).data)
    /\ Served(c)

ServeCursorMove(c) ==
    /\ Arrived(c, "cursor-move")
    /\ CursorMove(c, Head(net.up[c]).data.pos)
    /\ Served(c)

\* socket.on('update-cursor'): updateRemoteCursor moves an element of the
\* document; no field that is followed changes
OnUpdateCursor(c) == ClientStep(c, Fresh(clients[c]))

\* page c takes the first packet of its connection and the listener of the
\* event runs
Delivered(c, ev) == Len(net.down[c]) > 0 /\ Head(net.down[c]).event = ev
Taken(c) == net' = [net EXCEPT !.down[c] = Tail(@)]

ReceiveNewStroke(c) ==
    /\ Delivered(c, "new-stroke")
    /\ OnNewStroke(c, Head(net.down[c]).data.strokeId, Head(net.down[c]).data.strokeData)
    /\ Taken(c)

ReceiveStrokeDeleted(c) ==
    /\ Delivered(c, "stroke-deleted")
    /\ OnStrokeDeleted(c, Head(net.down[c]).data)
    /\ Taken(c)

ReceiveBoardCleared(c) ==
    /\ Delivered(c, "board-cleared")
    /\ OnBoardCleared(c)
    /\ Taken(c)

ReceiveUpdateCursor(c) ==
    /\ Delivered(c, "update-cursor")
    /\ OnUpdateCursor(c)
    /\ Taken(c)

(***************************************************************************)
(* Specification of a room in use.  In the initial state both connections  *)
(* have joined R1, the first as its owner "u1", and the board and both     *)
(* local maps are empty.  The user of the first page draws a stroke, goes   *)
(* over to the select tool, selects and drags, and undoes and redoes at    *)
(* any moment; the second page looks on.  Packets are delivered in order,  *)
(* at any pace.                                                            *)
(***************************************************************************)
InitSync ==
    /\ sockets = [s \in SocketIds |->
                    [state |-> "live",
                     userInfo |-> IF s = 1 THEN [id |-> "u1", username |-> "alice"]
                                  ELSE AnonymousInfo,
                     address |-> IF s = 1 THEN "ip1" ELSE "ip2",
                     currentRoom |-> R1]]
    /\ joined = [s \in SocketIds |-> {R1}]
    /\ boards = [q \in RoomIds |->
                    [roomId |-> q, owner |-> IF q = R1 THEN "u1" ELSE Null,
                     createdAt |-> 0, lastModified |-> 0, expiryDate |-> ExpiryMs,
                     strokes |-> NoStrokes,
                     members |-> IF q = R1
                                 THEN << [id |-> "u1", username |-> "alice",
                                          status |-> "online", socketId |-> 1],
                                         [id |-> Null, username |-> "Anonymous",
                                          status |-> "online", socketId |-> 2] >>
                                 ELSE << >>,
                     bannedIPs |-> << >>]]
    /\ uuidCount = 0
    /\ now = 0
    /\ pendingUnlink = {}
    /\ out = << >>
    /\ clients = [c \in SocketIds |-> NewClient]
    /\ net = NoTraffic

NextSync ==
    \/ \E p \in HistoryDown : OnPointerDown(1, p, 1, 1) /\ Sends(1)
    \/ \E p \in HistoryMove : OnPointerMove(1, p, 1) /\ Sends(1)
    \/ OnPointerUp(1) /\ Sends(1)
    \/ SelectTool(1, "select") /\ Sends(1)
    \/ Undo(1) /\ Sends(1)
    \/ Redo(1) /\ Sends(1)
    \/ \E c \in SocketIds : ServeAddStroke(c)
    \/ \E c \in SocketIds : ServeDeleteStroke(c)
    \/ \E c \in SocketIds : ServeUpdateStrokes(c)
    \/ \E c \in SocketIds : ServeCursorMove(c)
    \/ \E c \in SocketIds : ReceiveNewStroke(c)
    \/ \E c \in SocketIds : ReceiveStrokeDeleted(c)
    \/ \E c \in SocketIds : ReceiveUpdateCursor(c)

SpecSync == InitSync /\ [][NextSync]_vars

\* The pen and the eraser of one page with the network: the page draws,
\* switches tools and erases while its packets and the server's answers are
\* still on their way.
NextEcho ==
    \/ \E p \in HistoryDown, t \in ClientTimes :
           OnPointerDown(1, p, 1, t) /\ Sends(1)
    \/ \E p \in HistoryMove : OnPointerMove(1, p, 1) /\ Sends(1)
    \/ OnPointerUp(1) /\ Sends(1)
    \/ \E tool \in {"pen", "eraser"} : SelectTool(1, tool) /\ Sends(1)
    \/ \E c \in SocketIds : ServeAddStroke(c)
    \/ \E c \in SocketIds : ServeDeleteStroke(c)
    \/ \E c \in SocketIds : ServeCursorMove(c)
    \/ \E c \in SocketIds : ReceiveNewStroke(c)
    \/ \E c \in SocketIds : ReceiveStrokeDeleted(c)
    \/ \E c \in SocketIds : ReceiveUpdateCursor(c)

SpecEcho == InitSync /\ [][NextEcho]_vars

(***************************************************************************)
(* Specification of clearing a room.  Both connections have joined R1, the *)
(* first as its owner "u1" with the eraser in hand, the second anonymous;  *)
(* the board and both local maps hold one stroke.  Either user clicks      *)
(* "clear", the owner erases, the second user undoes and redoes.  Packets  *)
(* are delivered in order, at any pace.                                    *)
(***************************************************************************)
ClearStrokes == [k \in {TempId(1)} |-> SelectStrokes[k]]

InitClear ==
    /\ sockets = [s \in SocketIds |->
                    [state |-> "live",
                     userInfo |-> IF s = 1 THEN [id |-> "u1", username |-> "alice"]
                                  ELSE AnonymousInfo,
                     address |-> IF s = 1 THEN "ip1" ELSE "ip2",
                     currentRoom |-> R1]]
    /\ joined = [s \in SocketIds |-> {R1}]
    /\ boards = [q \in RoomIds |->
                    [roomId |-> q, owner |-> IF q = R1 THEN "u1" ELSE Null,
                     createdAt |-> 0, lastModified |-> 0, expiryDate |-> ExpiryMs,
                     strokes |-> IF q = R1 THEN ClearStrokes ELSE NoStrokes,
                     members |-> IF q = R1
                                 THEN << [id |-> "u1", username |-> "alice",
                                          status |-> "online", socketId |-> 1],
                                         [id |-> Null, username |-> "Anonymous",
                                          status |-> "online", socketId |-> 2] >>
                                 ELSE << >>,
                     bannedIPs |-> << >>]]
    /\ uuidCount = 0
    /\ now = 0
    /\ pendingUnlink = {}
    /\ out = << >>
    /\ clients = [c \in SocketIds |->
                    [NewClient EXCEPT !.strokes = ClearStrokes,
                                      !.currentTool = IF c = 1 THEN "eraser" ELSE "pen"]]
    /\ net = NoTraffic

NextClear ==
    \/ \E p \in HistoryDown : OnPointerDown(1, p, 1, 1) /\ Sends(1)
    \/ OnPointerUp(1) /\ Sends(1)
    \/ \E c \in SocketIds : ClearBoardClick(c) /\ Sends(c)
    \/ Undo(2) /\ Sends(2)
    \/ Redo(2) /\ Sends(2)
    \/ \E c \in SocketIds : ServeClearBoard(c)
    \/ \E c \in SocketIds : ServeAddStroke(c)
    \/ \E c \in SocketIds : ServeDeleteStroke(c)
    \/ \E c \in SocketIds : ReceiveBoardCleared(c)
    \/ \E c \in SocketIds : ReceiveNewStroke(c)
    \/ \E c \in SocketIds : ReceiveStrokeDeleted(c)

SpecClear == InitClear /\ [][NextClear]_vars

(***************************************************************************)
(* Specification of two pages drawing in one room.  Both connections have  *)
(* joined R1 and the board is empty.  The first user draws from (0,0) to   *)
(* (10,10), the second from (10,0) to (10,10), one stroke each; each page  *)
(* reads its own clock when the pen goes down.  Packets are delivered in   *)
(* order, at any pace.                                                     *)
(***************************************************************************)
PeerDown == {[x |-> 10, y |-> 0]}
PenDown(c) == IF c = 1 THEN HistoryDown ELSE PeerDown

NextPens ==
    \/ \E c \in SocketIds, t \in ClientTimes : \E p \in PenDown(c) :
           clients[c].clock = 0 /\ OnPointerDown(c, p, 1, t) /\ Sends(c)
    \/ \E c \in SocketIds, p \in HistoryMove : OnPointerMove(c, p, 1) /\ Sends(c)
    \/ \E c \in SocketIds : OnPointerUp(c) /\ Sends(c)
    \/ \E c \in SocketIds : ServeAddStroke(c)
    \/ \E c \in SocketIds : ServeCursorMove(c)
    \/ \E c \in SocketIds : ReceiveNewStroke(c)
    \/ \E c \in SocketIds : ReceiveUpdateCursor(c)

SpecPens == InitSync /\ [][NextPens]_vars

(***************************************************************************)
(* Vocabulary of the properties                                            *)
(***************************************************************************)
\* the connections that are in room r, read off the socket objects
Occupants(r) == {t \in SocketIds : sockets[t].state = "live" /\ sockets[t].currentRoom = r}
\* the same in the state a step leads to
OccupantsAfter(r) ==
    {t \in SocketIds : sockets'[t].state = "live" /\ sockets'[t].currentRoom = r}

IsEmit(e, ev, r, rcpts) ==
    e.kind = "emit" /\ e.event = ev /\ e.room = r /\ e.to = rcpts
IsWrite(e, r) == e.kind = "write" /\ e.room = r
EmitsEvent(effects, ev) == \E i \in 1..Len(effects) : effects[i].event = ev
EmitsInRoom(effects, r) ==
    \E i \in 1..Len(effects) : effects[i].kind = "emit" /\ effects[i].room = r

(***************************************************************************)
(* C1: clear-board by a connection whose identity is not board.owner       *)
(* leaves the persisted strokes as they are and broadcasts nothing; by a   *)
(* connection whose identity is board.owner it empties strokes, saves, and *)
(* broadcasts board-cleared to every connection in the room.               *)
(***************************************************************************)
C1_ClearStep(s, r) ==
    (ClearBoard(s, r) /\ BoardExists(boards, r)) =>
        IF boards[r].owner # sockets[s].userInfo.id
        THEN /\ boards'[r].strokes = boards[r].strokes
             /\ ~EmitsEvent(out', "board-cleared")
        ELSE /\ DOMAIN boards'[r].strokes = {}
             /\ Len(out') = 2
             /\ IsWrite(out'[1], r)
             /\ IsEmit(out'[2], "board-cleared", r, Occupants(r))

C1_ClearBoardOwnerOnly ==
    [][\A s \in SocketIds, r \in RoomIds : C1_ClearStep(s, r)]_vars

\* an owner's clear has just emptied a board and reached both connections
C1_Witness ==
    \E r \in DOMAIN boards :
        /\ Len(out) = 2
        /\ IsEmit(out[2], "board-cleared", r, SocketIds)
        /\ DOMAIN boards[r].strokes = {}

(***************************************************************************)
(* C2: delete-stroke of a present id removes exactly that id, saves and    *)
(* broadcasts stroke-deleted with the id to the room; of an absent id it   *)
(* changes no board and broadcasts nothing.  After a delete the id is      *)
(* absent, so a repeated delete is of the second kind.                     *)
(***************************************************************************)
C2_DeleteStep(s, r, k) ==
    DeleteStroke(s, r, k) =>
        IF BoardExists(boards, r) /\ k \in DOMAIN boards[r].strokes
        THEN /\ DOMAIN boards'[r].strokes = (DOMAIN boards[r].strokes) \ {k}
             /\ \A q \in DOMAIN boards'[r].strokes :
                    boards'[r].strokes[q] = boards[r].strokes[q]
             /\ Len(out') = 2
             /\ IsWrite(out'[1], r)
             /\ IsEmit(out'[2], "stroke-deleted", r, Occupants(r))
             /\ out'[2].data = k
        ELSE /\ boards' = boards
             /\ out' = << >>

TranslatePoints(points, dx, dy) ==
    [i \in DOMAIN points |-> [x |-> points[i].x + dx, y |-> points[i].y + dy]]

TranslateStrokes(strokes, strokeIds, dx, dy) ==
    [k \in DOMAIN strokes |->
        IF k \in strokeIds
        THEN [strokes[k] EXCEPT !.points = TranslatePoints(strokes[k].points, dx, dy)]
        ELSE strokes[k]]

\* stated for a request that names at least one stroke of the board
C5_UpdateStep(s, r, ks, d) ==
    (/\ UpdateStrokes(s, r, ks, d.dx, d.dy)
     /\ BoardExists(boards, r)
     /\ ks \cap DOMAIN boards[r].strokes # {}) =>
        /\ boards'[r].strokes = TranslateStrokes(boards[r].strokes, ks, d.dx, d.dy)
        /\ \E i \in 1..Len(out') :
              /\ IsEmit(out'[i], "strokes-updated", r, Occupants(r) \ {s})
              /\ out'[i].data = [strokeIds |-> ks, dx |-> d.dx, dy |-> d.dy]

C5_UpdateStrokesMoves ==
    [][\A s \in SocketIds, r \in RoomIds, ks \in SUBSET AllStrokeIds, d \in Deltas :
          C5_UpdateStep(s, r, ks, d)]_vars

(***************************************************************************)
(* C6: add-stroke on an existing room stores the stroke under the id the   *)
(* client supplied, or under a fresh id when it supplied none, saves, and  *)
(* broadcasts new-stroke with that id and the stored stroke to every       *)
(* connection in the room, the sender included.                            *)
(***************************************************************************)
KeysInUse == UNION {DOMAIN boards[r].strokes : r \in DOMAIN boards}

C6_AddStep(s, r, sd) ==
    (AddStroke(s, r, sd) /\ BoardExists(boards, r)) =>
        \E k \in DOMAIN boards'[r].strokes :
            /\ IF sd.id \in ClientStrokeIds THEN k = sd.id
               ELSE k \notin KeysInUse \cup ClientStrokeIds
            /\ boards'[r].strokes[k].points = sd.points
            /\ \A q \in (DOMAIN boards[r].strokes) \ {k} :
                  /\ q \in DOMAIN boards'[r].strokes
                  /\ boards'[r].strokes[q] = boards[r].strokes[q]
            /\ Len(out') = 2
            /\ IsWrite(out'[1], r)
            /\ IsEmit(out'[2], "new-stroke", r, Occupants(r))
            /\ out'[2].data = [strokeId |-> k, strokeData |-> boards'[r].strokes[k]]
            /\ (sockets[s].currentRoom = r => s \in out'[2].to)

C6_AddStoresAndBroadcasts ==
    [][\A s \in SocketIds, r \in RoomIds, sd \in StrokeDatas : C6_AddStep(s, r, sd)]_vars

\* a stroke sent without an id has just been stored under a generated id and
\* broadcast to both connections of the room
C6_Witness ==
    \E r \in DOMAIN boards :
        /\ Len(out) = 2
        /\ IsEmit(out[2], "new-stroke", r, SocketIds)
        /\ out[2].data.strokeId = Uuid(1)
        /\ Uuid(1) \in DOMAIN boards[r].strokes
        /\ "s1" \in DOMAIN boards[r].strokes

(***************************************************************************)
(* C7: a stroke mutation naming room R from a connection that is not       *)
(* joined to R does not change R's board and broadcasts nothing in R.      *)
(***************************************************************************)
C7_MutationStep(s, r) ==
    /\ \/ \E sd \in StrokeDatas : AddStroke(s, r, sd)
       \/ \E k \in AllStrokeIds : DeleteStroke(s, r, k)
       \/ \E ks \in SUBSET AllStrokeIds, d \in Deltas : UpdateStrokes(s, r, ks, d.dx, d.dy)
       \/ ClearBoard(s, r)
    /\ BoardExists(boards, r)
    /\ r \notin joined[s]

C7_MutationNeedsMembership ==
    [][\A s \in SocketIds, r \in RoomIds :
          C7_MutationStep(s, r) => (boards'[r] = boards[r] /\ ~EmitsInRoom(out', r))]_vars

(***************************************************************************)
(* C3: once a kick has banned address A in a room, A stays banned there    *)
(* whatever happens next, every join-room to that room from A is refused   *)
(* with the ban message, and a join-room from an address that is not       *)
(* banned succeeds whatever identity it asserts.                           *)
(***************************************************************************)
C3_KickBans(s, r, u) ==
    (/\ KickUser(s, r, u)
     /\ BoardExists(boards, r)
     /\ boards[r].owner = sockets[s].userInfo.id
     /\ FindMemberById(boards[r].members, u) # 0
     /\ sockets[boards[r].members[FindMemberById(boards[r].members, u)].socketId].state
            = "live")
    => SeqContains(boards'[r].bannedIPs,
          sockets[boards[r].members[FindMemberById(boards[r].members, u)].socketId].address)

C3_BanStays(r, a) ==
    (BoardExists(boards, r) /\ SeqContains(boards[r].bannedIPs, a))
    => (BoardExists(boards', r) /\ SeqContains(boards'[r].bannedIPs, a))

C3_JoinObeysBan(s, r) ==
    (JoinRoom(s, r) /\ BoardExists(boards, r)) =>
        IF SeqContains(boards[r].bannedIPs, sockets[s].address)
        THEN out' = << EffReply(s, JoinReplyFail("You are banned from this room.")) >>
        ELSE /\ Len(out') = 3
             /\ out'[2].kind = "reply"
             /\ out'[2].data.success

C3_BanIsPermanent ==
    [][/\ \A s \in SocketIds, r \in RoomIds, u \in UserIdValues : C3_KickBans(s, r, u)
       /\ \A r \in RoomIds, a \in Addresses : C3_BanStays(r, a)
       /\ \A s \in SocketIds, r \in RoomIds : C3_JoinObeysBan(s, r)]_vars

(***************************************************************************)
(* C4: members holds at most one record per member id; a join-room by an   *)
(* identity that has a record sets that record online with the joining     *)
(* connection's id and appends nothing.                                    *)
(***************************************************************************)
MembersUnique ==
    \A r \in DOMAIN boards :
        \A i, j \in 1..Len(boards[r].members) :
            boards[r].members[i].id = boards[r].members[j].id => i = j

C4_RejoinStep(s, r) ==
    (/\ BoardExists(boards, r)
     /\ ~SeqContains(boards[r].bannedIPs, sockets[s].address)
     /\ \E i \in 1..Len(boards[r].members) :
            boards[r].members[i].id = sockets[s].userInfo.id
     /\ JoinRoom(s, r))
    => /\ Len(boards'[r].members) = Len(boards[r].members)
       /\ \A i \in 1..Len(boards[r].members) :
            IF boards[r].members[i].id = sockets[s].userInfo.id
            THEN boards'[r].members[i] =
                    [boards[r].members[i] EXCEPT !.status = "online", !.socketId = s]
            ELSE boards'[r].members[i] = boards[r].members[i]

C4_MembershipUnique ==
    /\ []MembersUnique
    /\ [][\A s \in SocketIds, r \in RoomIds : C4_RejoinStep(s, r)]_vars

\* two connections asserting the same id are in one room, which holds the
\* single record of that id, bound to the connection that joined last
C4_Witness ==
    \E r \in DOMAIN boards :
        /\ Occupants(r) = SocketIds
        /\ sockets[1].userInfo.id = sockets[2].userInfo.id
        /\ Len(boards[r].members) = 1
        /\ boards[r].members[1].id = sockets[1].userInfo.id
        /\ boards[r].members[1].socketId = 2
        /\ Len(out) = 3
        /\ IsEmit(out[3], "update-members", r, SocketIds)

(***************************************************************************)
(* C8: a kick-user from a connection whose identity is not board.owner     *)
(* changes nothing: no ban, no status change, no connection closed,        *)
(* nothing emitted, no reply.                                              *)
(***************************************************************************)
C8_KickStep(s, r, u) ==
    (/\ BoardExists(boards, r)
     /\ boards[r].owner # sockets[s].userInfo.id
     /\ KickUser(s, r, u))
    => /\ boards' = boards
       /\ sockets' = sockets
       /\ joined' = joined
       /\ out' = << >>

C8_KickByNonOwnerIgnored ==
    [][\A s \in SocketIds, r \in RoomIds, u \in UserIdValues : C8_KickStep(s, r, u)]_vars

\* a connection that is not the owner shares a room with an online member on
\* a live connection, and the handler that ran last emitted nothing
C8_Witness ==
    \E r \in DOMAIN boards, s \in SocketIds :
        /\ sockets[s].state = "live"
        /\ sockets[s].currentRoom = r
        /\ boards[r].owner # sockets[s].userInfo.id
        /\ \E i \in 1..Len(boards[r].members) :
              /\ boards[r].members[i].status = "online"
              /\ boards[r].members[i].socketId # s
              /\ sockets[boards[r].members[i].socketId].state = "live"
              /\ sockets[boards[r].members[i].socketId].currentRoom = r
        /\ boards[r].bannedIPs = << >>
        /\ out = << >>

(***************************************************************************)
(* C9: a join-room that fails (no board of that name, or the caller's      *)
(* address is banned) replies {success: false, message} and changes        *)
(* nothing: the connection stays where it was, no member record is added   *)
(* or changed, nothing is saved or broadcast.                              *)
(***************************************************************************)
C9_JoinStep(s, r) ==
    (/\ \/ ~BoardExists(boards, r)
        \/ SeqContains(boards[r].bannedIPs, sockets[s].address)
     /\ JoinRoom(s, r))
    => /\ boards' = boards
       /\ sockets' = sockets
       /\ joined' = joined
       /\ Len(out') = 1
       /\ out'[1].kind = "reply"
       /\ out'[1].to = {s}
       /\ ~out'[1].data.success
       /\ out'[1].data.message =
             IF BoardExists(boards, r) THEN "You are banned from this room."
             ELSE "Room not found."

C9_FailedJoinChangesNothing ==
    [][\A s \in SocketIds, r \in RoomIds : C9_JoinStep(s, r)]_vars

\* a connection that is in one room has just been refused by another room
\* that banned its address
C9_Witness ==
    \E s \in SocketIds, r \in DOMAIN boards :
        /\ sockets[s].state = "live"
        /\ sockets[s].currentRoom \notin {Null, r}
        /\ joined[s] = {sockets[s].currentRoom}
        /\ SeqContains(boards[r].bannedIPs, sockets[s].address)
        /\ out = << EffReply(s, JoinReplyFail("You are banned from this room.")) >>

(***************************************************************************)
(* C10: a connection receives the broadcasts of at most one room, the one  *)
(* recorded as its current room; after it has moved to another room, no    *)
(* broadcast of the old room is delivered to it.                           *)
(***************************************************************************)
C10_OneRoomPerConnection ==
    /\ \A s \in SocketIds :
          joined[s] = IF sockets[s].state = "live" /\ sockets[s].currentRoom # Null
                      THEN {sockets[s].currentRoom} ELSE {}
    /\ \A i \in 1..Len(out) :
          (out[i].kind = "emit" /\ out[i].room \in RoomIds)
              => out[i].to \subseteq Occupants(out[i].room)

\* a connection that was in R1 has moved to R2, and a broadcast in R1 has just
\* gone to the other connection only
C10_Witness ==
    \E s \in SocketIds :
        /\ sockets[s].state = "live"
        /\ sockets[s].currentRoom = R2
        /\ BoardExists(boards, R1)
        /\ \E i \in 1..Len(boards[R1].members) : boards[R1].members[i].socketId = s
        /\ \E i \in 1..Len(out) :
              IsEmit(out[i], "update-members", R1, SocketIds \ {s})

(***************************************************************************)
(* C11: create-room replies {success: true, roomId} with a roomId of 6     *)
(* characters, and the board then on file under that roomId has empty      *)
(* strokes, members and bannedIPs and the caller's identity of that moment *)
(* as owner.                                                               *)
(***************************************************************************)
C11_CreateStep(s, r) ==
    (\E d \in 0..MaxSkew : CreateRoom(s, r, d)) =>
        /\ Len(out') = 2
        /\ IsWrite(out'[1], r)
        /\ out'[2] = EffReply(s, [success |-> TRUE, roomId |-> r])
        /\ Len(r) = 6
        /\ BoardExists(boards', r)
        /\ readBoard(boards', r).roomId = r
        /\ DOMAIN readBoard(boards', r).strokes = {}
        /\ readBoard(boards', r).members = << >>
        /\ readBoard(boards', r).bannedIPs = << >>
        /\ readBoard(boards', r).owner = sockets[s].userInfo.id

C11_CreateRoomReply ==
    [][\A s \in SocketIds, r \in RoomIds : C11_CreateStep(s, r)]_vars

(***************************************************************************)
(* C12: in every persisted board every key of strokes equals the id field  *)
(* of the stroke stored under it, whatever strokeData clients have sent.   *)
(***************************************************************************)
C12_KeysEqualIds ==
    \A r \in DOMAIN boards :
        \A k \in DOMAIN boards[r].strokes : boards[r].strokes[k].id = k

(***************************************************************************)
(* C13: two handlers that change the same board can overlap so that one    *)
(* reads the board before the other saves it and then saves its own copy:  *)
(* the other's change is lost.  This happens when kick-user closes a       *)
(* connection of the room: the disconnect handler of that connection runs  *)
(* inside kick-user, after kick-user read the board and before it saves.   *)
(* When the record the disconnect handler sets offline (found by socketId) *)
(* is not the record kick-user sets offline (found by id), the offline     *)
(* status is saved and broadcast, and is online again in the board         *)
(* kick-user saves.                                                        *)
(***************************************************************************)
C13_KickStep(s, r, u) ==
    LET i == FindMemberById(boards[r].members, u)
        t == boards[r].members[i].socketId
        j == FindMemberBySocket(boards[r].members, t)
    IN (/\ BoardExists(boards, r)
        /\ boards[r].owner = sockets[s].userInfo.id
        /\ i # 0
        /\ sockets[t].state = "live"
        /\ sockets[t].currentRoom = r
        /\ j # i
        /\ boards[r].members[j].status = "online"
        /\ KickUser(s, r, u))
       => /\ \E n \in 1..Len(out') :
                /\ out'[n].kind = "emit"
                /\ out'[n].event = "update-members"
                /\ out'[n].room = r
                /\ out'[n].data[j].status = "offline"
                /\ n > 1
                /\ IsWrite(out'[n - 1], r)
                /\ \E w \in (n + 1)..Len(out') : IsWrite(out'[w], r)
          /\ boards'[r].members[j].status = "online"

C13_LostUpdate ==
    [][\A s \in SocketIds, r \in RoomIds, u \in UserIdValues : C13_KickStep(s, r, u)]_vars

\* a kick has just run: the closed connection's disconnect handler saved and
\* broadcast a record as offline, and the board on file has it online
C13_Witness ==
    \E r \in DOMAIN boards, n \in 1..Len(out), j \in 1..2 :
        /\ \E m \in 1..Len(out) : m < n /\ out[m].kind = "disconnect"
        /\ out[n].kind = "emit"
        /\ out[n].event = "update-members"
        /\ out[n].room = r
        /\ j <= Len(out[n].data)
        /\ out[n].data[j].status = "offline"
        /\ \E w \in (n + 1)..Len(out) : IsWrite(out[w], r)
        /\ j <= Len(boards[r].members)
        /\ boards[r].members[j].status = "online"

(***************************************************************************)
(* C14: a stroke mutation that takes effect saves the board before it      *)
(* broadcasts: whenever new-stroke, stroke-deleted, strokes-updated or     *)
(* board-cleared is emitted, the save of that room's board came just       *)
(* before it in the handler, and the board on file already shows the       *)
(* change the broadcast announces.                                         *)
(***************************************************************************)
StrokeEvents == {"new-stroke", "stroke-deleted", "strokes-updated", "board-cleared"}

C14_Announced(e) ==
    /\ BoardExists(boards', e.room)
    /\ e.event = "new-stroke" =>
          /\ e.data.strokeId \in DOMAIN boards'[e.room].strokes
          /\ boards'[e.room].strokes[e.data.strokeId] = e.data.strokeData
    /\ e.event = "stroke-deleted" => e.data \notin DOMAIN boards'[e.room].strokes
    /\ e.event = "board-cleared" => DOMAIN boards'[e.room].strokes = {}
    /\ e.event = "strokes-updated" => boards'[e.room] # boards[e.room]

C14_Step ==
    /\ \A n \in 1..Len(out') :
          (out'[n].kind = "emit" /\ out'[n].event \in StrokeEvents) =>
              /\ n > 1
              /\ IsWrite(out'[n - 1], out'[n].room)
              /\ C14_Announced(out'[n])
    /\ \A r \in DOMAIN boards :
          (r \in DOMAIN boards' /\ boards'[r].strokes # boards[r].strokes) =>
              /\ Len(out') = 2
              /\ IsWrite(out'[1], r)
              /\ out'[2].kind = "emit"
              /\ out'[2].event \in StrokeEvents
              /\ out'[2].room = r

C14_PersistBeforeBroadcast == [][C14_Step]_vars

\* a stroke sent with its own id has just been saved and then announced to a
\* connection of the room
C14_Witness ==
    \E r \in DOMAIN boards :
        /\ Len(out) = 2
        /\ IsWrite(out[1], r)
        /\ out[2].kind = "emit"
        /\ out[2].event = "new-stroke"
        /\ out[2].room = r
        /\ out[2].to # {}
        /\ out[2].data.strokeId = "s1"
        /\ "s1" \in DOMAIN boards[r].strokes
        /\ boards[r].strokes["s1"] = out[2].data.strokeData

(***************************************************************************)
(* C15: add-stroke, delete-stroke, clear-board and kick-user for a roomId  *)
(* that has no board do nothing: no board appears, no board changes,       *)
(* nothing is emitted, nothing is reported to the caller.                  *)
(***************************************************************************)
C15_MissingStep(s, r) ==
    (/\ ~BoardExists(boards, r)
     /\ \/ \E sd \in StrokeDatas : AddStroke(s, r, sd)
        \/ \E k \in AllStrokeIds : DeleteStroke(s, r, k)
        \/ ClearBoard(s, r)
        \/ \E u \in UserIdValues : KickUser(s, r, u))
    => /\ boards' = boards
       /\ out' = << >>
       /\ sockets' = sockets
       /\ joined' = joined

C15_MissingRoomNoOp ==
    [][\A s \in SocketIds, r \in LifeRoomIds : C15_MissingStep(s, r)]_vars

\* a handler has just run without any effect while a board holds a stroke, a
\* member and a ban (a request for the room without board is such a handler)
C15_Witness ==
    /\ out = << >>
    /\ ~BoardExists(boards, "R9")
    /\ DOMAIN boards[R1].strokes # {}
    /\ boards[R1].members # << >>
    /\ boards[R1].bannedIPs # << >>
    /\ \E s \in SocketIds : sockets[s].state = "live"

(***************************************************************************)
(* C16: a kick-user by the owner that names a member always leaves that    *)
(* member offline in the board on file and ends with update-members sent   *)
(* to the room.  If the member's socketId is that of a live connection,    *)
(* that connection is sent kicked, then disconnected, and its address is   *)
(* appended to bannedIPs; if not, nobody is sent kicked or disconnected    *)
(* and bannedIPs stays as it is.                                           *)
(***************************************************************************)
C16_KickStep(s, r, u) ==
    LET ms == boards[r].members
        i == CHOOSE n \in 0..Len(ms) :
                /\ n # 0 => ms[n].id = u
                /\ \A m \in 1..Len(ms) : ms[m].id = u => (n # 0 /\ n <= m)
        t == ms[i].socketId
        e == Len(out')
    IN (/\ BoardExists(boards, r)
        /\ boards[r].owner = sockets[s].userInfo.id
        /\ i # 0
        /\ KickUser(s, r, u))
       => /\ boards'[r].members[i].status = "offline"
          /\ e >= 2
          /\ IsWrite(out'[e - 1], r)
          /\ IsEmit(out'[e], "update-members", r, OccupantsAfter(r))
          /\ out'[e].data = boards'[r].members
          /\ IF sockets[t].state = "live"
             THEN /\ boards'[r].bannedIPs = Append(boards[r].bannedIPs, sockets[t].address)
                  /\ out'[1].kind = "emit"
                  /\ out'[1].event = "kicked"
                  /\ out'[1].to = {t}
                  /\ out'[2] = EffDisconnect(t)
                  /\ sockets'[t].state = "closed"
                  /\ \A q \in SocketIds \ {t} : sockets'[q] = sockets[q]
             ELSE /\ boards'[r].bannedIPs = boards[r].bannedIPs
                  /\ e = 2
                  /\ sockets' = sockets

C16_KickOutcome ==
    [][\A s \in SocketIds, r \in LifeRoomIds, u \in UserIdValues : C16_KickStep(s, r, u)]_vars

\* a kick has just found no live connection for the member it named: the
\* member is offline, update-members went out, and the ban list is empty
C16_Witness ==
    /\ Len(out) = 2
    /\ IsWrite(out[1], R1)
    /\ out[2].kind = "emit"
    /\ out[2].event = "update-members"
    /\ out[2].to # {}
    /\ boards[R1].bannedIPs = << >>
    /\ \E i \in 1..Len(boards[R1].members) : boards[R1].members[i].status = "offline"

(***************************************************************************)
(* C17: when a connection that is in a room disconnects, the record of     *)
(* that room's members whose socketId is the connection's id is set        *)
(* offline, the board is saved and update-members is sent to the room;     *)
(* strokes, bannedIPs, owner and the other records stay as they are.  If   *)
(* no record has that socketId, nothing is saved or sent.                  *)
(***************************************************************************)
C17_DisconnectStep(s) ==
    LET r == sockets[s].currentRoom
        ms == boards[r].members
        j == CHOOSE n \in 0..Len(ms) :
                /\ n # 0 => ms[n].socketId = s
                /\ \A m \in 1..Len(ms) : ms[m].socketId = s => (n # 0 /\ n <= m)
    IN Disconnect(s) =>
          IF r # Null /\ BoardExists(boards, r) /\ j # 0
          THEN /\ boards' = [boards EXCEPT ![r].members[j].status = "offline",
                                           ![r].lastModified = now]
               /\ out' = << EffDisconnect(s), EffWrite(r),
                            EffEmit("update-members", r, Occupants(r) \ {s},
                                    boards'[r].members) >>
          ELSE /\ boards' = boards
               /\ out' = << EffDisconnect(s) >>

C17_DisconnectMarksOffline ==
    [][\A s \in SocketIds : C17_DisconnectStep(s)]_vars

\* a connection has just disconnected from a room that holds a stroke and a
\* ban: its record is offline, the other connection's record is online, and
\* update-members went to the other connection
C17_Witness ==
    /\ Len(out) = 3
    /\ out[1].kind = "disconnect"
    /\ IsWrite(out[2], R1)
    /\ out[3].kind = "emit"
    /\ out[3].event = "update-members"
    /\ out[3].to # {}
    /\ DOMAIN boards[R1].strokes # {}
    /\ \E i, j \in 1..Len(boards[R1].members) :
          /\ boards[R1].members[i].status = "offline"
          /\ boards[R1].members[i].socketId \in out[1].to
          /\ boards[R1].members[j].status = "online"

(***************************************************************************)
(* C18: under join, disconnect, kick and stroke operations a board's       *)
(* member records are never removed: every record stays at its place with  *)
(* its id, and only its status and socketId change.                        *)
(***************************************************************************)
C18_Step ==
    \A r \in DOMAIN boards :
        /\ r \in DOMAIN boards'
        /\ Len(boards'[r].members) >= Len(boards[r].members)
        /\ \A i \in 1..Len(boards[r].members) :
              /\ boards'[r].members[i].id = boards[r].members[i].id
              /\ boards'[r].members[i].username = boards[r].members[i].username

C18_MembersNeverShrink == [][C18_Step]_vars

\* a board holds two records, one of a member that left (offline) and one of
\* a member that joined after it
C18_Witness ==
    /\ Len(boards[R1].members) = 2
    /\ boards[R1].members[1].status = "offline"
    /\ boards[R1].members[2].status = "online"
    /\ sockets[boards[R1].members[1].socketId].state = "closed"
    /\ Len(out) = 3
    /\ out[2].kind = "reply"

(***************************************************************************)
(* C19: once created, a board keeps its roomId, owner, createdAt and       *)
(* expiryDate through every later operation other than create-room, and    *)
(* its expiryDate is createdAt + 14 days.                                  *)
(***************************************************************************)
C19_ExpiryFromCreation ==
    \A r \in DOMAIN boards : boards[r].expiryDate = boards[r].createdAt + ExpiryMs

C19_Frame ==
    \A r \in DOMAIN boards :
        (/\ r \in DOMAIN boards'
         /\ ~ \E s \in SocketIds, d \in 0..MaxSkew : CreateRoom(s, r, d))
        => /\ boards'[r].roomId = boards[r].roomId
           /\ boards'[r].owner = boards[r].owner
           /\ boards'[r].createdAt = boards[r].createdAt
           /\ boards'[r].expiryDate = boards[r].expiryDate

C19_CreationFieldsFixed == []C19_ExpiryFromCreation /\ [][C19_Frame]_vars

(***************************************************************************)
(* C20: two moves on disjoint sets of stroke ids commute: applying the     *)
(* move of A and then the move of B leaves every stroke where applying the *)
(* move of B and then the move of A leaves it.                             *)
(***************************************************************************)
C20_Commute(strokes, A, dA, B, dB) ==
    StrokesUpdated(StrokesUpdated(strokes, A, dA.dx, dA.dy), B, dB.dx, dB.dy)
        = StrokesUpdated(StrokesUpdated(strokes, B, dB.dx, dB.dy), A, dA.dx, dA.dy)

C20_DisjointMovesCommute ==
    \A c \in SocketIds :
        \A A, B \in SUBSET AllStrokeIds :
            A \cap B = {} =>
                \A dA, dB \in Deltas : C20_Commute(clients[c].strokes, A, dA, B, dB)

\* a client holds two strokes that were moved by different deltas
C20_Witness ==
    \E c \in SocketIds :
        /\ DOMAIN clients[c].strokes = AllStrokeIds
        /\ clients[c].strokes["s1"].points[1] = [x |-> 5, y |-> 0 - 3]
        /\ clients[c].strokes[Uuid(1)].points[1] = [x |-> 0 - 2, y |-> 7]

(***************************************************************************)
(* C21: create-room never returns a roomId that already has a board, so    *)
(* it never replaces an existing board (its strokes, members, bannedIPs    *)
(* and owner stay).                                                        *)
(***************************************************************************)
C21_CreateStep(s, r) ==
    (\E d \in 0..MaxSkew : CreateRoom(s, r, d)) =>
        /\ ~BoardExists(boards, r)
        /\ \A q \in DOMAIN boards :
              /\ BoardExists(boards', q)
              /\ boards'[q].strokes = boards[q].strokes
              /\ boards'[q].members = boards[q].members
              /\ boards'[q].bannedIPs = boards[q].bannedIPs
              /\ boards'[q].owner = boards[q].owner

C21_RoomIdsUnique ==
    [][\A s \in SocketIds, r \in RoomIds : C21_CreateStep(s, r)]_vars

(***************************************************************************)
(* C22: on a page, every edit that is recorded (an add, delete, move or    *)
(* clear entry pushed on the undo stack) empties the redo stack; undo      *)
(* moves exactly the top entry of the undo stack to the redo stack and     *)
(* redo moves exactly the top entry of the redo stack back; on an empty    *)
(* stack undo and redo change nothing and send nothing.                    *)
(***************************************************************************)
HistoryKinds == {"add", "delete", "move", "clear"}

C22_Step(c) ==
    LET cl == clients[c]
        after == clients'[c]
    IN /\ Undo(c) =>
            IF Len(cl.undoStack) = 0 THEN after = Fresh(cl)
            ELSE /\ after.undoStack = Pop(cl.undoStack)
                 /\ after.redoStack = Append(cl.redoStack, Top(cl.undoStack))
       /\ Redo(c) =>
            IF Len(cl.redoStack) = 0 THEN after = Fresh(cl)
            ELSE /\ after.redoStack = Pop(cl.redoStack)
                 /\ after.undoStack = Append(cl.undoStack, Top(cl.redoStack))
       /\ (~Undo(c) /\ ~Redo(c)) =>
            IF after.undoStack # cl.undoStack
            THEN /\ Len(after.undoStack) = Len(cl.undoStack) + 1
                 /\ Pop(after.undoStack) = cl.undoStack
                 /\ Top(after.undoStack).type \in HistoryKinds
                 /\ after.redoStack = << >>
            ELSE after.redoStack = cl.redoStack

C22_HistoryStacks == [][\A c \in SocketIds : C22_Step(c)]_vars

\* an edit has been undone after another one was recorded: one entry on each
\* stack, of different kinds
C22_Witness ==
    /\ Len(clients[1].undoStack) = 1
    /\ Len(clients[1].redoStack) = 1
    /\ clients[1].undoStack[1].type = "add"
    /\ clients[1].redoStack[1].type = "move"

(***************************************************************************)
(* C23: undo of an entry sends exactly the inverse request of the edit:    *)
(* for add, delete-stroke of the recorded id, and nothing when the local   *)
(* map no longer holds that stroke; for delete, add-stroke of the stroke   *)
(* as it was removed, under its id; for move, update-strokes of the same   *)
(* ids with (-dx, -dy); for clear, one add-stroke for each stroke of the   *)
(* snapshot taken before the clear.                                        *)
(***************************************************************************)
Sent(ev, data) == [event |-> ev, data |-> data]

C23_Inverse(cl, op, sent) ==
    CASE op.type = "add" ->
            sent = IF op.strokeId \in DOMAIN cl.strokes
                   THEN << Sent("delete-stroke",
                                [roomId |-> cl.roomId, strokeId |-> op.strokeId]) >>
                   ELSE << >>
      [] op.type = "delete" ->
            /\ sent = << Sent("add-stroke",
                              [roomId |-> cl.roomId, strokeData |-> op.strokeData]) >>
            /\ op.strokeData.id = op.strokeId
      [] op.type = "move" ->
            sent = << Sent("update-strokes",
                           [roomId |-> cl.roomId, strokeIds |-> op.strokeIds,
                            dx |-> 0 - op.dx, dy |-> 0 - op.dy]) >>
      [] op.type = "clear" ->
            /\ Len(sent) = Cardinality(DOMAIN op.before)
            /\ \A k \in DOMAIN op.before :
                  \E i \in 1..Len(sent) :
                      sent[i] = Sent("add-stroke",
                                     [roomId |-> cl.roomId, strokeData |-> op.before[k]])

C23_Step(c) ==
    LET cl == clients[c]
        after == clients'[c]
    IN /\ (Undo(c) /\ Len(cl.undoStack) > 0) =>
              C23_Inverse(cl, Top(cl.undoStack), after.sent)
       \* what a delete or a clear entry records is the stroke, or the map, as
       \* it was when the edit was made
       /\ (~Redo(c) /\ Len(after.undoStack) = Len(cl.undoStack) + 1) =>
              LET op == Top(after.undoStack)
              IN /\ op.type = "delete" =>
                       /\ op.strokeId \in DOMAIN cl.strokes
                       /\ op.strokeData = cl.strokes[op.strokeId]
                 /\ op.type = "clear" => op.before = cl.strokes

C23_UndoSendsInverse == [][\A c \in SocketIds : C23_Step(c)]_vars

\* a move has just been undone: the entry is on the redo stack and the
\* request with the opposite delta is what the page sent last
C23_Witness ==
    /\ Len(clients[1].redoStack) > 0
    /\ Top(clients[1].redoStack).type = "move"
    /\ Len(clients[1].sent) = 1
    /\ clients[1].sent[1].event = "update-strokes"
    /\ clients[1].sent[1].data.dx = 0 - Top(clients[1].redoStack).dx
    /\ clients[1].sent[1].data.dx # 0

(***************************************************************************)
(* C24: while a selection is dragged, each move of the pointer shifts the  *)
(* local copy of every selected stroke by the delta of that move and only  *)
(* the cursor position is sent; at the release one update-strokes is sent  *)
(* with the selected ids and the sum of the deltas of the drag, unless the *)
(* sum is (0, 0), and then nothing is sent; update-strokes is sent at no   *)
(* other moment of the drag.                                               *)
(***************************************************************************)
SentEvents(cl, ev) == {i \in 1..Len(cl.sent) : cl.sent[i].event = ev}

\* the strokes ids of the map are shifted by (dx, dy), the others are as
\* they were
C24_Shifted(before, after, ids, dx, dy) ==
    /\ DOMAIN after = DOMAIN before
    /\ \A k \in DOMAIN before :
          /\ after[k].id = before[k].id
          /\ Len(after[k].points) = Len(before[k].points)
          /\ \A i \in 1..Len(before[k].points) :
                IF k \in ids
                THEN /\ after[k].points[i].x = before[k].points[i].x + dx
                     /\ after[k].points[i].y = before[k].points[i].y + dy
                ELSE after[k].points[i] = before[k].points[i]

\* a drag starts with a sum of (0, 0) and sends no update-strokes
C24_Start(cl, after) ==
    (~cl.isDraggingSelection /\ after.isDraggingSelection) =>
        /\ after.accumulatedDrag = [x |-> 0, y |-> 0]
        /\ SentEvents(after, "update-strokes") = {}

\* during the drag the delta by which the rectangle of the selection moves
\* is applied to the selected strokes and added to the sum
C24_During(cl, after) ==
    (cl.isDraggingSelection /\ after.isDraggingSelection) =>
        LET dx == after.selectionRect[1].x - cl.selectionRect[1].x
            dy == after.selectionRect[1].y - cl.selectionRect[1].y
        IN /\ after.selectedStrokeIds = cl.selectedStrokeIds
           /\ IF cl.selectedStrokeIds = {} THEN dx = 0 /\ dy = 0 ELSE TRUE
           /\ C24_Shifted(cl.strokes, after.strokes, cl.selectedStrokeIds, dx, dy)
           /\ after.accumulatedDrag =
                  [x |-> cl.accumulatedDrag.x + dx, y |-> cl.accumulatedDrag.y + dy]

C24_ReleaseMessage(cl) ==
    Sent("update-strokes",
         [roomId |-> cl.roomId, strokeIds |-> cl.selectedStrokeIds,
          dx |-> cl.accumulatedDrag.x, dy |-> cl.accumulatedDrag.y])

C24_Step(c) ==
    LET cl == clients[c]
        after == clients'[c]
    IN /\ C24_Start(cl, after)
       /\ C24_During(cl, after)
       /\ (cl.isDraggingSelection /\ after.isDraggingSelection) =>
              \A i \in 1..Len(after.sent) : after.sent[i].event = "cursor-move"
       /\ (cl.isDraggingSelection /\ ~after.isDraggingSelection) =>
              after.sent = IF cl.accumulatedDrag = [x |-> 0, y |-> 0]
                           THEN << >>
                           ELSE << C24_ReleaseMessage(cl) >>

C24_DragSendsSum == [][\A c \in SocketIds : C24_Step(c)]_vars

\* the claim as it is worded: nothing at all is sent while the pointer
\* moves, and every release sends one update-strokes
C24_StepAsWorded(c) ==
    LET cl == clients[c]
        after == clients'[c]
    IN /\ C24_Start(cl, after)
       /\ C24_During(cl, after)
       /\ (cl.isDraggingSelection /\ after.isDraggingSelection) => after.sent = << >>
       /\ (cl.isDraggingSelection /\ ~after.isDraggingSelection) =>
              after.sent = << C24_ReleaseMessage(cl) >>

C24_DragSendsOneMessage == [][\A c \in SocketIds : C24_StepAsWorded(c)]_vars

\* a drag has just been released and reported: the selected stroke went
\* from (0, 0) to (10, 0), whether straight or by way of (10, 10)
C24_Witness ==
    /\ ~clients[1].isDraggingSelection
    /\ Len(clients[1].sent) = 1
    /\ clients[1].sent[1] = C24_ReleaseMessage(clients[1])
    /\ clients[1].sent[1].data.strokeIds = {TempId(1)}
    /\ clients[1].sent[1].data.dx = 10
    /\ clients[1].sent[1].data.dy = 0
    /\ clients[1].strokes[TempId(1)].points[1] = [x |-> 10, y |-> 0]

(***************************************************************************)
(* C25: when the user confirms a clear, the page's local stroke map is     *)
(* empty as soon as the click handler has run, before any answer of the    *)
(* server; the board-cleared that follows finds it empty and changes       *)
(* nothing.                                                                *)
(***************************************************************************)
C25_ClickStep(c) ==
    ClearBoardClick(c) =>
        /\ DOMAIN clients'[c].strokes = {}
        /\ SentEvents(clients'[c], "clear-board") # {}

C25_ClearEmptiesAtOnce == [][\A c \in SocketIds : C25_ClickStep(c)]_vars

(***************************************************************************)
(* C26: when a pen gesture ends (release, pointer leaving the canvas, or a *)
(* second finger starting a pinch), a stroke of fewer than 2 points is     *)
(* taken out of the local map and no add-stroke is sent for it; a stroke   *)
(* of 2 or more points is sent with add-stroke, once.                      *)
(***************************************************************************)
C26_Step(c) ==
    LET cl == clients[c]
        after == clients'[c]
    IN IF cl.isDrawing /\ ~after.isDrawing
       THEN LET cur == CurrentObject(cl)
            IN IF Len(cur.points) < 2
               THEN /\ cur.id \notin DOMAIN after.strokes
                    /\ SentEvents(after, "add-stroke") = {}
               ELSE after.sent = << Sent("add-stroke",
                                         [roomId |-> cl.roomId, strokeData |-> cur]) >>
       ELSE SentEvents(after, "add-stroke") = {}

C26_GestureEnd == [][\A c \in SocketIds : C26_Step(c)]_vars

(***************************************************************************)
(* C28: when a marquee is finalized, the selected set is exactly the set   *)
(* of local strokes whose bounding box and the marquee rectangle have a    *)
(* point in common; a box or a marquee of zero width or height has its     *)
(* points as any other, and an edge belongs to its rectangle.              *)
(***************************************************************************)
\* the rectangles a and b, edges included, have a point in common
C28_Meet(a, b) ==
    /\ a.x <= b.x + b.w
    /\ b.x <= a.x + a.w
    /\ a.y <= b.y + b.h
    /\ b.y <= a.y + a.h

C28_Step(c) ==
    LET cl == clients[c]
        after == clients'[c]
    IN (cl.isSelecting /\ ~after.isSelecting) =>
           after.selectedStrokeIds =
               {k \in DOMAIN cl.strokes :
                   C28_Meet(strokeBoundingBox(cl.strokes[k]), cl.selectionRect[1])}

C28_MarqueePicksIntersecting == [][\A c \in SocketIds : C28_Step(c)]_vars

(***************************************************************************)
(* C27: the new-stroke that answers a page's add-stroke carries the id the *)
(* page gave the stroke, and reaches the page; when the page takes it, its *)
(* local map holds the stroke under that id before and after, and no key   *)
(* is added.  The eraser removes a stroke from the local map at once, so a *)
(* page that erases its stroke before the answer arrives no longer holds   *)
(* the record when it takes the answer, and the answer puts it back.       *)
(***************************************************************************)
\* the server answers an add-stroke of c with the stroke under its own id
C27_ServeStep(c) ==
    ServeAddStroke(c) =>
        LET sd == Head(net.up[c]).data.strokeData
        IN /\ Len(out') = 2
           /\ out'[2].event = "new-stroke"
           /\ c \in out'[2].to
           /\ out'[2].data = [strokeId |-> sd.id, strokeData |-> sd]

\* the page takes the answer
C27_EchoStep(c) ==
    ReceiveNewStroke(c) =>
        LET m == Head(net.down[c]).data
            before == clients[c].strokes
            after == clients'[c].strokes
        IN /\ m.strokeId = m.strokeData.id
           /\ \E t \in 1..clients[c].clock : m.strokeId = TempId(t)
           /\ m.strokeId \in DOMAIN before
           /\ DOMAIN after = DOMAIN before
           /\ after[m.strokeId] = m.strokeData
           /\ \A k \in DOMAIN before : k # m.strokeId => after[k] = before[k]

C27_EchoKeepsId == [][C27_ServeStep(1) /\ C27_EchoStep(1)]_vars

(***************************************************************************)
(* C29: when no packet is on its way and no gesture is in progress, the    *)
(* local stroke map of every page that has joined a room is the strokes of *)
(* the room's persisted board, ids and positions.                          *)
(***************************************************************************)
GestureInProgress(cl) ==
    \/ cl.pointers > 0
    \/ cl.isDrawing
    \/ cl.isErasing
    \/ cl.isSelecting
    \/ cl.isDraggingSelection

Quiescent ==
    \A c \in SocketIds :
        /\ net.up[c] = << >>
        /\ net.down[c] = << >>
        /\ ~GestureInProgress(clients[c])

C29_Convergence ==
    Quiescent =>
        \A c \in SocketIds :
            (Live(c) /\ sockets[c].currentRoom \in DOMAIN boards) =>
                clients[c].strokes = boards[sockets[c].currentRoom].strokes

(***************************************************************************)
(* C30: undo followed by redo is a round trip for the room's strokes.  For *)
(* an add entry: the stroke it stands for was on the board before the      *)
(* undo, so with the entry back on the undo stack and every packet         *)
(* delivered, the stroke is on the board.  (Nothing else takes a stroke    *)
(* off the board here: only the first page edits, and only its undo of an  *)
(* add sends delete-stroke.)                                               *)
(***************************************************************************)
C30_UndoRedoRoundTrip ==
    Quiescent =>
        \A i \in 1..Len(clients[1].undoStack) :
            clients[1].undoStack[i].type = "add" =>
                clients[1].undoStack[i].strokeId \in DOMAIN boards[R1].strokes

(***************************************************************************)
(* C31: presence is accurate.  In every state, a member record of a board  *)
(* has status online exactly when some live connection whose identity is   *)
(* the member's id is joined to the board's room.                          *)
(***************************************************************************)
\* the live connections of identity id that are joined to room r
Present(r, id) ==
    {s \in SocketIds : Live(s) /\ sockets[s].userInfo.id = id /\ r \in joined[s]}

C31_PresenceAccurate ==
    \A r \in DOMAIN boards :
        \A i \in 1..Len(boards[r].members) :
            LET m == boards[r].members[i]
            IN (m.status = "online") <=> (Present(r, m.id) # {})

(***************************************************************************)
(* C32: a kick-user in room r disconnects only a connection that is joined *)
(* to r at that moment, and the address it adds to the bannedIPs of r is   *)
(* the address of such a connection.                                       *)
(***************************************************************************)
C32_KickStep(s, r, u) ==
    KickUser(s, r, u) =>
        /\ \A t \in SocketIds :
               (sockets[t].state = "live" /\ sockets'[t].state = "closed")
                   => r \in joined[t]
        /\ (BoardExists(boards, r) /\ boards'[r].bannedIPs # boards[r].bannedIPs)
               => \E t \in SocketIds :
                      /\ sockets[t].state = "live"
                      /\ r \in joined[t]
                      /\ boards'[r].bannedIPs =
                             Append(boards[r].bannedIPs, sockets[t].address)

C32_KickOnlyInRoom ==
    [][\A s \in SocketIds, r \in RoomIds, u \in UserIdValues : C32_KickStep(s, r, u)]_vars

(***************************************************************************)
(* C33: when the server has ignored a page's clear-board because the page  *)
(* is not the owner's, what a later undo of that page sends leaves the     *)
(* strokes of the board on file as they are; a stroke that another page    *)
(* has deleted meanwhile is not created again.                             *)
(***************************************************************************)
\* page c cannot clear the room, and every packet of c before this one has
\* been served: its clear-board was ignored
C33_Step(c) ==
    (/\ ~CanClear(boards[PageRoom], sockets[c].userInfo)
     /\ ServeAddStroke(c))
        => boards'[PageRoom].strokes = boards[PageRoom].strokes

C33_UndoAfterIgnoredClear == [][\A c \in SocketIds : C33_Step(c)]_vars

(***************************************************************************)
(* C34: stroke ids are unique across the pages of a room.  An add-stroke   *)
(* for a newly drawn stroke never replaces a different stroke that the     *)
(* board on file holds under the same id, and the new-stroke that follows  *)
(* never replaces a different stroke in the local map of a page.           *)
(***************************************************************************)
C34_ServeStep(c) ==
    ServeAddStroke(c) =>
        LET id == Head(net.up[c]).data.strokeData.id
            before == boards[PageRoom].strokes
        IN id \in DOMAIN before => boards'[PageRoom].strokes[id] = before[id]

C34_ReceiveStep(c) ==
    ReceiveNewStroke(c) =>
        LET id == Head(net.down[c]).data.strokeId
            before == clients[c].strokes
        IN id \in DOMAIN before => clients'[c].strokes[id] = before[id]

C34_StrokeIdsUnique ==
    [][\A c \in SocketIds : C34_ServeStep(c) /\ C34_ReceiveStep(c)]_vars


====
